---- MODULE Spec2Model ----
(***************************************************************************)
(* Checkball: the score service of checkball.py (class SportsAPI).         *)
(* Strings are sequences of one-character strings, so that lower(),        *)
(* strip(), split() and the substring test are computed, not assumed.      *)
(***************************************************************************)
EXTENDS Integers, Sequences, FiniteSets, TLC

(***************************************************************************)
(* Python string primitives used by the matcher and the sport dispatch.    *)
(***************************************************************************)
LowerChar(c) ==
    CASE c = "A" -> "a"
      [] c = "B" -> "b"
      [] c = "C" -> "c"
      [] c = "D" -> "d"
      [] c = "E" -> "e"
      [] c = "F" -> "f"
      [] c = "G" -> "g"
      [] c = "H" -> "h"
      [] c = "I" -> "i"
      [] c = "J" -> "j"
      [] c = "K" -> "k"
      [] c = "L" -> "l"
      [] c = "M" -> "m"
      [] c = "N" -> "n"
      [] c = "O" -> "o"
      [] c = "P" -> "p"
      [] c = "Q" -> "q"
      [] c = "R" -> "r"
      [] c = "S" -> "s"
      [] c = "T" -> "t"
      [] c = "U" -> "u"
      [] c = "V" -> "v"
      [] c = "W" -> "w"
      [] c = "X" -> "x"
      [] c = "Y" -> "y"
      [] c = "Z" -> "z"
      [] c = "É" -> "é"
      [] OTHER -> c

WhiteSpace == {" ", "\t"}

\* str.lower()
StrLower(s) == [i \in 1..Len(s) |-> LowerChar(s[i])]

\* str.strip(): drop leading and trailing whitespace
StrStrip(s) ==
    LET keep == {i \in 1..Len(s) : s[i] \notin WhiteSpace}
    IN  IF keep = {} THEN <<>>
        ELSE LET lo == CHOOSE i \in keep : \A j \in keep : i <= j
                 hi == CHOOSE i \in keep : \A j \in keep : j <= i
             IN  SubSeq(s, lo, hi)

\* Python's "a in b" on strings (the empty string is in every string)
StrContains(b, a) ==
    \E k \in 0..(Len(b) - Len(a)) : SubSeq(b, k + 1, k + Len(a)) = a

\* set(str.split()): the maximal runs of non-whitespace characters
StrSplitSet(s) ==
    LET starts == {i \in 1..Len(s) :
                     /\ s[i] \notin WhiteSpace
                     /\ (i = 1 \/ s[i - 1] \in WhiteSpace)}
        End(lo) == CHOOSE hi \in lo..Len(s) :
                     /\ \A i \in lo..hi : s[i] \notin WhiteSpace
                     /\ (hi = Len(s) \/ s[hi + 1] \in WhiteSpace)
    IN  { SubSeq(s, lo, End(lo)) : lo \in starts }

(***************************************************************************)
(* TeamNameMatcher                                                         *)
(***************************************************************************)
team_mappings ==
    {
      << <<"a","t","h","l","e","t","i","c","s">>,
         <<"o","a","k","l","a","n","d"," ","a","t","h","l","e","t","i","c","s">> >>,
      << <<"a","'","s">>,
         <<"o","a","k","l","a","n","d"," ","a","t","h","l","e","t","i","c","s">> >>,
      << <<"o","a","k","l","a","n","d"," ","a","'","s">>,
         <<"o","a","k","l","a","n","d"," ","a","t","h","l","e","t","i","c","s">> >>,
      << <<"d","o","d","g","e","r","s">>,
         <<"l","o","s"," ","a","n","g","e","l","e","s"," ","d","o","d","g","e","r","s">> >>,
      << <<"a","n","g","e","l","s">>,
         <<"l","o","s"," ","a","n","g","e","l","e","s"," ","a","n","g","e","l","s">> >>,
      << <<"y","a","n","k","e","e","s">>,
         <<"n","e","w"," ","y","o","r","k"," ","y","a","n","k","e","e","s">> >>,
      << <<"m","e","t","s">>,
         <<"n","e","w"," ","y","o","r","k"," ","m","e","t","s">> >>,
      << <<"r","e","d"," ","s","o","x">>,
         <<"b","o","s","t","o","n"," ","r","e","d"," ","s","o","x">> >>,
      << <<"w","h","i","t","e"," ","s","o","x">>,
         <<"c","h","i","c","a","g","o"," ","w","h","i","t","e"," ","s","o","x">> >>,
      << <<"b","l","u","e"," ","j","a","y","s">>,
         <<"t","o","r","o","n","t","o"," ","b","l","u","e"," ","j","a","y","s">> >>,
      << <<"g","u","a","r","d","i","a","n","s">>,
         <<"c","l","e","v","e","l","a","n","d"," ","g","u","a","r","d","i","a","n","s">> >>,
      << <<"d","i","a","m","o","n","d","b","a","c","k","s">>,
         <<"a","r","i","z","o","n","a"," ","d","i","a","m","o","n","d","b","a","c","k","s">> >>,
      << <<"r","a","y","s">>,
         <<"t","a","m","p","a"," ","b","a","y"," ","r","a","y","s">> >>,
      << <<"l","i","b","e","r","t","y">>,
         <<"n","e","w"," ","y","o","r","k"," ","l","i","b","e","r","t","y">> >>,
      << <<"a","c","e","s">>,
         <<"l","a","s"," ","v","e","g","a","s"," ","a","c","e","s">> >>,
      << <<"s","k","y">>,
         <<"c","h","i","c","a","g","o"," ","s","k","y">> >>,
      << <<"s","u","n">>,
         <<"c","o","n","n","e","c","t","i","c","u","t"," ","s","u","n">> >>,
      << <<"s","t","o","r","m">>,
         <<"s","e","a","t","t","l","e"," ","s","t","o","r","m">> >>,
      << <<"l","y","n","x">>,
         <<"m","i","n","n","e","s","o","t","a"," ","l","y","n","x">> >>,
      << <<"s","p","a","r","k","s">>,
         <<"l","o","s"," ","a","n","g","e","l","e","s"," ","s","p","a","r","k","s">> >>,
      << <<"m","e","r","c","u","r","y">>,
         <<"p","h","o","e","n","i","x"," ","m","e","r","c","u","r","y">> >>,
      << <<"m","y","s","t","i","c","s">>,
         <<"w","a","s","h","i","n","g","t","o","n"," ","m","y","s","t","i","c","s">> >>,
      << <<"f","e","v","e","r">>,
         <<"i","n","d","i","a","n","a"," ","f","e","v","e","r">> >>,
      << <<"w","i","n","g","s">>,
         <<"d","a","l","l","a","s"," ","w","i","n","g","s">> >>,
      << <<"d","r","e","a","m">>,
         <<"a","t","l","a","n","t","a"," ","d","r","e","a","m">> >>,
      << <<"b","a","r","c","e","l","o","n","a">>,
         <<"b","a","r","c","e","l","o","n","a">> >>,
      << <<"b","a","r","c","a">>,
         <<"b","a","r","c","e","l","o","n","a">> >>,
      << <<"r","e","a","l"," ","m","a","d","r","i","d">>,
         <<"r","e","a","l"," ","m","a","d","r","i","d">> >>,
      << <<"m","a","d","r","i","d">>,
         <<"r","e","a","l"," ","m","a","d","r","i","d">> >>,
      << <<"a","t","l","e","t","i","c","o"," ","m","a","d","r","i","d">>,
         <<"a","t","l","é","t","i","c","o"," ","m","a","d","r","i","d">> >>,
      << <<"a","t","l","e","t","i","c","o">>,
         <<"a","t","l","é","t","i","c","o"," ","m","a","d","r","i","d">> >>,
      << <<"a","t","h","l","e","t","i","c"," ","b","i","l","b","a","o">>,
         <<"a","t","h","l","e","t","i","c"," ","b","i","l","b","a","o">> >>,
      << <<"a","t","h","l","e","t","i","c">>,
         <<"a","t","h","l","e","t","i","c"," ","b","i","l","b","a","o">> >>,
      << <<"r","e","a","l"," ","s","o","c","i","e","d","a","d">>,
         <<"r","e","a","l"," ","s","o","c","i","e","d","a","d">> >>,
      << <<"s","o","c","i","e","d","a","d">>,
         <<"r","e","a","l"," ","s","o","c","i","e","d","a","d">> >>,
      << <<"v","a","l","e","n","c","i","a">>,
         <<"v","a","l","e","n","c","i","a">> >>,
      << <<"s","e","v","i","l","l","a">>,
         <<"s","e","v","i","l","l","a">> >>,
      << <<"v","i","l","l","a","r","r","e","a","l">>,
         <<"v","i","l","l","a","r","r","e","a","l">> >>,
      << <<"b","e","t","i","s">>,
         <<"r","e","a","l"," ","b","e","t","i","s">> >>,
      << <<"r","e","a","l"," ","b","e","t","i","s">>,
         <<"r","e","a","l"," ","b","e","t","i","s">> >>
    }

normalize_team_name_without_lower(team_name) ==
    LET normalized == StrStrip(team_name)
    IN  IF \E p \in team_mappings : p[1] = normalized
        THEN (CHOOSE p \in team_mappings : p[1] = normalized)[2]
        ELSE normalized

normalize_team_name(team_name) ==
    LET normalized == StrStrip(StrLower(team_name))
    IN  IF \E p \in team_mappings : p[1] = normalized
        THEN (CHOOSE p \in team_mappings : p[1] = normalized)[2]
        ELSE normalized

common_words ==
    { <<"t","h","e">>, <<"o","f">>, <<"a","n","d">>, <<"f","c">>,
      <<"u","n","i","t","e","d">>, <<"c","i","t","y">> }

team_name_matches_unfiltered_words(search_name, api_name) ==
    LET search_normalized == normalize_team_name(search_name)
        api_normalized == normalize_team_name(api_name)
        search_words == StrSplitSet(search_normalized)
        api_words == StrSplitSet(api_normalized)
    IN  IF search_normalized = api_normalized THEN TRUE
        ELSE IF StrContains(api_normalized, search_normalized) THEN TRUE
        ELSE IF StrContains(search_normalized, api_normalized) THEN TRUE
        ELSE IF (search_words \cap api_words) # {} THEN TRUE
        ELSE FALSE

team_name_matches_one_way(search_name, api_name) ==
    LET search_normalized == normalize_team_name(search_name)
        api_normalized == normalize_team_name(api_name)
        search_words_filtered == StrSplitSet(search_normalized) \ common_words
        api_words_filtered == StrSplitSet(api_normalized) \ common_words
    IN  IF search_normalized = api_normalized THEN TRUE
        ELSE IF StrContains(api_normalized, search_normalized) THEN TRUE
        ELSE IF /\ search_words_filtered # {}
                /\ api_words_filtered # {}
                /\ (search_words_filtered \cap api_words_filtered) # {}
             THEN TRUE
        ELSE FALSE

team_name_matches(search_name, api_name) ==
    LET search_normalized == normalize_team_name(search_name)
        api_normalized == normalize_team_name(api_name)
        search_words_filtered == StrSplitSet(search_normalized) \ common_words
        api_words_filtered == StrSplitSet(api_normalized) \ common_words
    IN  IF search_normalized = api_normalized THEN TRUE
        ELSE IF StrContains(api_normalized, search_normalized) THEN TRUE
        ELSE IF StrContains(search_normalized, api_normalized) THEN TRUE
        ELSE IF /\ search_words_filtered # {}
                /\ api_words_filtered # {}
                /\ (search_words_filtered \cap api_words_filtered) # {}
             THEN TRUE
        ELSE FALSE

(***************************************************************************)
(* The names the callers and the upstream use in this model.               *)
(***************************************************************************)
Yankees == <<"Y","a","n","k","e","e","s">>
Lakers == <<"L","a","k","e","r","s">>
NewYorkYankees == <<"N","e","w"," ","Y","o","r","k"," ","Y","a","n","k","e","e","s">>
BostonRedSox == <<"B","o","s","t","o","n"," ","R","e","d"," ","S","o","x">>

TeamInputs == {Yankees, Lakers}

(***************************************************************************)
(* Bounds of the model.  Time is counted in ticks, DayLen ticks per day.   *)
(***************************************************************************)
MaxGames == 3
MaxTime == 2
DayLen == 2

Times == 0..MaxTime

(***************************************************************************)
(* State.  A reference to a game of a list is its index, 0 is None.        *)
(***************************************************************************)
VARIABLES pc, op, sport, team_name, now, day_idx, team_games, result,
          primary_game, next_game, api_cache, game_info, day_data, requested

vars == <<pc, op, sport, team_name, now, day_idx, team_games, result,
          primary_game, next_game, api_cache, game_info, day_data, requested>>

(***************************************************************************)
(* GameSelector: _select_primary_and_next_games                            *)
(***************************************************************************)
CompletedStatuses == {"STATUS_FINAL", "STATUS_FINAL_OT"}
InProgressStatuses == {"STATUS_IN_PROGRESS", "STATUS_HALFTIME"}

\* a filter that lets every game through
FilterByStatus_every(games, names) == [k \in 1..Len(games) |-> k]

\* a filter that yields the matching games last to first
FilterByStatus_reversed(games, names) ==
    LET idx == {i \in 1..Len(games) : games[i].status_type \in names}
        F[k \in 0..Len(games)] ==
            IF k = 0 THEN <<>>
            ELSE IF k \in idx THEN <<k>> \o F[k - 1] ELSE F[k - 1]
    IN  F[Len(games)]

\* [g for g in games if g['status_type'] in names], as the list of indices
FilterByStatus(games, names) ==
    LET idx == {i \in 1..Len(games) : games[i].status_type \in names}
        F[k \in 0..Len(games)] ==
            IF k = 0 THEN <<>>
            ELSE IF k \in idx THEN Append(F[k - 1], k) ELSE F[k - 1]
    IN  F[Len(games)]

\* a sort that forgets reverse=True: always ascending
SortByDate_ascending(games, idxs, reverse) ==
    LET Before(a, b) ==
            \/ games[idxs[a]].game_date < games[idxs[b]].game_date
            \/ (games[idxs[a]].game_date = games[idxs[b]].game_date /\ a < b)
        Rank(a) == 1 + Cardinality({b \in 1..Len(idxs) : Before(b, a)})
    IN  [r \in 1..Len(idxs) |->
            idxs[CHOOSE a \in 1..Len(idxs) : Rank(a) = r]]

\* a sort that always passes reverse=True: always descending
SortByDate_descending(games, idxs, reverse) ==
    LET Before(a, b) ==
            \/ games[idxs[a]].game_date > games[idxs[b]].game_date
            \/ (games[idxs[a]].game_date = games[idxs[b]].game_date /\ a < b)
        Rank(a) == 1 + Cardinality({b \in 1..Len(idxs) : Before(b, a)})
    IN  [r \in 1..Len(idxs) |->
            idxs[CHOOSE a \in 1..Len(idxs) : Rank(a) = r]]

\* list.sort(key=game_date[, reverse=True]): stable in both directions
SortByDate(games, idxs, reverse) ==
    LET Before(a, b) ==
            \/ (IF reverse
                THEN games[idxs[a]].game_date > games[idxs[b]].game_date
                ELSE games[idxs[a]].game_date < games[idxs[b]].game_date)
            \/ (games[idxs[a]].game_date = games[idxs[b]].game_date /\ a < b)
        Rank(a) == 1 + Cardinality({b \in 1..Len(idxs) : Before(b, a)})
    IN  [r \in 1..Len(idxs) |->
            idxs[CHOOSE a \in 1..Len(idxs) : Rank(a) = r]]

\* current_time.replace(hour=0, minute=0, second=0, microsecond=0)
TodayStart(current_time) == current_time - (current_time % DayLen)

\* a day filter that lets every completed game through
todays_completed_unfiltered(games, completed_games, current_time) ==
    completed_games

\* [g for g in completed_games if today_start <= g['game_date'] < today_end]
todays_completed_of(games, completed_games, current_time) ==
    LET today_start == TodayStart(current_time)
        today_end == today_start + DayLen
    IN  SelectSeq(completed_games,
                  LAMBDA i : /\ today_start <= games[i].game_date
                             /\ games[i].game_date < today_end)

select_primary_and_next_games(games, current_time) ==
    LET completed_games ==
            SortByDate(games, FilterByStatus(games, CompletedStatuses), TRUE)
        in_progress_games == FilterByStatus(games, InProgressStatuses)
        upcoming_games ==
            SortByDate(games, FilterByStatus(games, {"STATUS_SCHEDULED"}), FALSE)
        todays_completed ==
            todays_completed_of(games, completed_games, current_time)
        first_upcoming ==
            IF upcoming_games # <<>> THEN upcoming_games[1] ELSE 0
        chosen ==
            IF in_progress_games # <<>>
            THEN [primary |-> in_progress_games[1], next |-> first_upcoming]
            ELSE IF completed_games # <<>>
            THEN IF todays_completed # <<>>
                 THEN [primary |-> todays_completed[1], next |-> first_upcoming]
                 ELSE [primary |-> completed_games[1], next |-> first_upcoming]
            ELSE IF upcoming_games # <<>>
            THEN [primary |-> upcoming_games[1],
                  next |-> IF Len(upcoming_games) > 1
                           THEN upcoming_games[2] ELSE 0]
            ELSE [primary |-> 0, next |-> 0]
    IN  IF chosen.primary = 0 /\ games # <<>>
        THEN [primary |->
                SortByDate(games, [i \in 1..Len(games) |-> i], TRUE)[1],
              next |-> chosen.next]
        ELSE chosen

(***************************************************************************)
(* Exceptions.  A call returns a record whose exc field is "none" or the   *)
(* name of the exception it raised.                                        *)
(***************************************************************************)
RequestExceptions == {"Timeout", "HTTPError", "ConnectionError", "JSONDecodeError"}
ValueErrors == {"ValueError", "JSONDecodeError"}
KeyErrors == {"KeyError"}

(***************************************************************************)
(* Request helper: get_cache_key and _make_api_request.  An attempt is     *)
(* [exc |-> name] when it fails and [exc |-> "none", data |-> json] when   *)
(* requests.get, raise_for_status and response.json() all succeed.         *)
(***************************************************************************)
max_retries == 2

\* a key that leaves the URL out
get_cache_key_prefix_only(prefix, url) == <<prefix>>

get_cache_key(prefix, url) == <<prefix, url>>

\* a helper whose last failed attempt falls through to the trailing
\* "return None" of line 127 instead of re-raising
make_api_request_swallow(cache, url, attempts) ==
    LET cache_key == get_cache_key("api", url)
        Try[a \in 1..(max_retries + 1)] ==
            IF a > max_retries
            THEN [exc |-> "none", data |-> [kind |-> "None"],
                  cache |-> cache, calls |-> max_retries]
            ELSE IF attempts[a].exc = "none"
            THEN [exc |-> "none", data |-> attempts[a].data,
                  cache |-> [k \in DOMAIN cache \cup {cache_key} |->
                                IF k = cache_key THEN attempts[a].data
                                ELSE cache[k]],
                  calls |-> a]
            ELSE Try[a + 1]
    IN  IF cache_key \in DOMAIN cache
        THEN [exc |-> "none", data |-> cache[cache_key],
              cache |-> cache, calls |-> 0]
        ELSE Try[1]

\* attempts: the outcomes the upstream would give to attempt 1, 2, ...
make_api_request(cache, url, attempts) ==
    LET cache_key == get_cache_key("api", url)
        Try[a \in 1..(max_retries + 1)] ==
            IF a > max_retries
            THEN [exc |-> "none", data |-> [kind |-> "None"],
                  cache |-> cache, calls |-> max_retries]
            ELSE IF attempts[a].exc = "none"
            THEN [exc |-> "none", data |-> attempts[a].data,
                  cache |-> [k \in DOMAIN cache \cup {cache_key} |->
                                IF k = cache_key THEN attempts[a].data
                                ELSE cache[k]],
                  calls |-> a]
            ELSE IF attempts[a].exc \in RequestExceptions
            THEN IF a = max_retries
                 THEN [exc |-> attempts[a].exc, data |-> [kind |-> "None"],
                       cache |-> cache, calls |-> a]
                 ELSE Try[a + 1]
            ELSE [exc |-> attempts[a].exc, data |-> [kind |-> "None"],
                  cache |-> cache, calls |-> a]
    IN  IF cache_key \in DOMAIN cache
        THEN [exc |-> "none", data |-> cache[cache_key],
              cache |-> cache, calls |-> 0]
        ELSE Try[1]

(***************************************************************************)
(* GameFetcher: the body of the per-day loop of get_scores.                *)
(* JSON: data is [kind |-> "dict", events |-> <<event, ...>>] or a value   *)
(*   of another kind ("null", "list").                                     *)
(* event: [id, competitions \in {"absent", "empty", "present"},            *)
(*         competitors, date, status_name, venue]                          *)
(* competitor: [has_id, id, displayName, score]; "absent" is a missing key *)
(***************************************************************************)
\* lines 177-201: the start time, or failure (the competitor is skipped)
ParseGameDate(date) ==
    IF date.form \in {"absent", "empty"} THEN [ok |-> FALSE, t |-> 0]
    ELSE IF date.form = "Z" THEN [ok |-> TRUE, t |-> date.t]
    ELSE IF date.form \in {"naive", "minus"}
         \* no "+" in the string and a "T": "+00:00" is appended
         THEN IF date.form = "naive" THEN [ok |-> TRUE, t |-> date.t]
              ELSE [ok |-> FALSE, t |-> 0]
    ELSE IF date.form = "plus" THEN [ok |-> TRUE, t |-> date.t]
    ELSE [ok |-> FALSE, t |-> 0]

get_opponent(competitors, current_team) ==
    LET F[k \in 1..(Len(competitors) + 1)] ==
            IF k > Len(competitors)
            THEN [exc |-> "none", name |-> <<"U","n","k","n","o","w","n">>,
                  score |-> "0"]
            ELSE IF ~competitors[k].has_id \/ ~current_team.has_id
            THEN [exc |-> "KeyError", name |-> <<>>, score |-> "0"]
            ELSE IF competitors[k].id # current_team.id
            THEN IF competitors[k].displayName = <<"absent">>
                 THEN [exc |-> "KeyError", name |-> <<>>, score |-> "0"]
                 ELSE [exc |-> "none", name |-> competitors[k].displayName,
                       score |-> IF competitors[k].score = "absent" THEN "0"
                                 ELSE competitors[k].score]
            ELSE F[k + 1]
    IN  F[1]

LiveOrFinalStatuses ==
    {"STATUS_FINAL", "STATUS_FINAL_OT", "STATUS_IN_PROGRESS", "STATUS_HALFTIME"}

\* a builder that hides the scores of scheduled games only
BuildGameInfo_scheduled_only(game, team, opponent, game_date) ==
    LET status_name == IF game.status_name = "absent" THEN "STATUS_SCHEDULED"
                       ELSE game.status_name
        shown == status_name # "STATUS_SCHEDULED"
    IN  [team |-> IF team.displayName = <<"absent">> THEN <<>>
                  ELSE team.displayName,
         team_score |-> IF shown
                        THEN (IF team.score = "absent" THEN "0" ELSE team.score)
                        ELSE "-",
         opponent |-> opponent.name,
         opponent_score |-> IF shown THEN opponent.score ELSE "-",
         status_type |-> status_name,
         game_date |-> game_date,
         venue |-> IF game.venue = "" THEN "TBD" ELSE game.venue]

\* lines 203-230
BuildGameInfo(game, team, opponent, game_date) ==
    LET status_name == IF game.status_name = "absent" THEN "STATUS_SCHEDULED"
                       ELSE game.status_name
        shown == status_name \in LiveOrFinalStatuses
    IN  [team |-> IF team.displayName = <<"absent">> THEN <<>>
                  ELSE team.displayName,
         team_score |-> IF shown
                        THEN (IF team.score = "absent" THEN "0" ELSE team.score)
                        ELSE "-",
         opponent |-> opponent.name,
         opponent_score |-> IF shown THEN opponent.score ELSE "-",
         status_type |-> status_name,
         game_date |-> game_date,
         venue |-> IF game.venue = "" THEN "TBD" ELSE game.venue]

\* lines 169-232 for one event: the matching competitor's record, if any
ScanEvent(game, name) ==
    IF game.competitions = "empty"
    THEN [exc |-> "IndexError", found |-> FALSE]
    ELSE
    LET competitors == IF game.competitions = "absent" THEN <<>>
                       ELSE game.competitors
        F[k \in 1..(Len(competitors) + 1)] ==
            IF k > Len(competitors) THEN [exc |-> "none", found |-> FALSE]
            ELSE
            LET team == competitors[k]
                team_display_name == IF team.displayName = <<"absent">>
                                     THEN <<>> ELSE team.displayName
            IN  IF ~team_name_matches(name, team_display_name) THEN F[k + 1]
                ELSE
                LET opponent == get_opponent(competitors, team)
                    parsed == ParseGameDate(game.date)
                IN  IF opponent.exc # "none"
                    THEN [exc |-> opponent.exc, found |-> FALSE]
                    ELSE IF ~parsed.ok THEN F[k + 1]
                    ELSE [exc |-> "none", found |-> TRUE,
                          info |-> BuildGameInfo(game, team, opponent, parsed.t)]
    IN  F[1]

\* lines 168-232 for one day's data: the games appended, and the exception
\* that ended the scan early, if any
ScanDay(data, name, games) ==
    IF data.kind # "dict" THEN [exc |-> "AttributeError", team_games |-> games]
    ELSE
    LET F[k \in 0..Len(data.events)] ==
            IF k = 0 THEN [exc |-> "none", team_games |-> games]
            ELSE LET prev == F[k - 1]
                     r == ScanEvent(data.events[k], name)
                 IN  IF prev.exc # "none" THEN prev
                     ELSE IF r.exc # "none"
                     THEN [exc |-> r.exc, team_games |-> prev.team_games]
                     ELSE IF r.found
                     THEN [exc |-> "none",
                           team_games |-> Append(prev.team_games, r.info)]
                     ELSE prev
    IN  F[Len(data.events)]

(***************************************************************************)
(* ScoreService: sport dispatch, handlers and results.                     *)
(***************************************************************************)
\* get_scores, lines 133-150
scores_chain(s) ==
        IF s = <<"n","b","a">>
            THEN [ok |-> TRUE, base_url |-> "basketball/nba"]
        ELSE IF s = <<"w","n","b","a">>
            THEN [ok |-> TRUE, base_url |-> "basketball/wnba"]
        ELSE IF s = <<"n","f","l">>
            THEN [ok |-> TRUE, base_url |-> "football/nfl"]
        ELSE IF s = <<"m","l","s">>
            THEN [ok |-> TRUE, base_url |-> "soccer/usa.1"]
        ELSE IF s = <<"p","r","e","m","i","e","r"," ","l","e","a","g","u","e">>
            THEN [ok |-> TRUE, base_url |-> "soccer/eng.1"]
        ELSE IF s = <<"l","a"," ","l","i","g","a">>
            THEN [ok |-> TRUE, base_url |-> "soccer/esp.1"]
        ELSE IF s = <<"m","l","b">>
            THEN [ok |-> TRUE, base_url |-> "baseball/mlb"]
        ELSE IF s = <<"n","h","l">>
            THEN [ok |-> TRUE, base_url |-> "hockey/nhl"]
        ELSE [ok |-> FALSE, base_url |-> ""]

\* a dispatch that also strips the sport string
scores_base_url_stripped(sport_arg) == scores_chain(StrStrip(StrLower(sport_arg)))

\* sport.lower() of get_scores
scores_base_url(sport_arg) == scores_chain(StrLower(sport_arg))

\* get_detailed_game_data, lines 491-508
detail_chain(s) ==
        IF s = <<"n","b","a">>
            THEN [ok |-> TRUE, base_url |-> "basketball/nba"]
        ELSE IF s = <<"w","n","b","a">>
            THEN [ok |-> TRUE, base_url |-> "basketball/wnba"]
        ELSE IF s = <<"n","f","l">>
            THEN [ok |-> TRUE, base_url |-> "football/nfl"]
        ELSE IF s = <<"m","l","s">>
            THEN [ok |-> TRUE, base_url |-> "soccer/usa.1"]
        ELSE IF s = <<"p","r","e","m","i","e","r"," ","l","e","a","g","u","e">>
            THEN [ok |-> TRUE, base_url |-> "soccer/eng.1"]
        ELSE IF s = <<"l","a"," ","l","i","g","a">>
            THEN [ok |-> TRUE, base_url |-> "soccer/esp.1"]
        ELSE IF s = <<"m","l","b">>
            THEN [ok |-> TRUE, base_url |-> "baseball/mlb"]
        ELSE IF s = <<"n","h","l">>
            THEN [ok |-> TRUE, base_url |-> "hockey/nhl"]
        ELSE [ok |-> FALSE, base_url |-> ""]

\* sport.lower() of get_detailed_game_data
detail_base_url(sport_arg) == detail_chain(StrLower(sport_arg))

ScoreOffsets == <<-1, 0, 1, 2, 3>>
FindOffsets_week == <<-3, -2, -1, 0, 1, 2, 3>>

FindOffsets == <<-2, -1, 0, 1, 2>>

\* (now + timedelta(days=days_offset)).strftime('%Y%m%d'): the day number
DateStr(current_time, days_offset) ==
    (TodayStart(current_time) \div DayLen) + days_offset

ScoreboardUrl(base_url, date_str) ==
    [base |-> base_url, path |-> "scoreboard", arg |-> date_str]

SummaryUrl(base_url, game_id) ==
    [base |-> base_url, path |-> "summary", arg |-> game_id]

\* except (requests.RequestException, ValueError, KeyError) of the day loops
DayCatches(exc) == exc \in RequestExceptions \cup ValueErrors \cup KeyErrors

AllExceptions ==
    RequestExceptions \cup ValueErrors \cup KeyErrors
        \cup {"IndexError", "AttributeError", "TypeError"}

\* a boundary that catches request errors only
ScoresOuterCatches_requests_only(exc) == exc \in RequestExceptions

\* except Exception of get_scores (line 264)
ScoresOuterCatches(exc) == exc \in AllExceptions

\* except Exception of get_detailed_game_data (line 529)
DetailOuterCatches(exc) == exc \in AllExceptions

\* except Exception of _find_team_game (line 567)
FindOuterCatches(exc) == exc \in AllExceptions

ErrorResult(msg, exc) == [kind |-> "error", error |-> msg, exc |-> exc]

Raised(exc) == [kind |-> "raised", exc |-> exc]

Placeholder(name) ==
    [kind |-> "placeholder", team |-> name, team_score |-> "-",
     opponent |-> "No games found", opponent_score |-> "-",
     venue |-> "-", next_game |-> <<>>]

\* get_scores without the "if not team_games" branch
scores_result_unguarded(games, current_time, name) ==
    LET sel == select_primary_and_next_games(games, current_time)
    IN  IF sel.primary = 0
        THEN [exc |-> "TypeError", primary |-> 0, next |-> sel.next,
              value |-> Placeholder(name)]
        ELSE [exc |-> "none", primary |-> sel.primary, next |-> sel.next,
              value |->
                [kind |-> "game", game |-> games[sel.primary],
                 next_game |->
                    IF sel.next # 0
                    THEN << [opponent |-> games[sel.next].opponent,
                             game_date |-> games[sel.next].game_date,
                             venue |-> games[sel.next].venue] >>
                    ELSE <<>>]]

\* get_scores after the day loop, lines 237-262
scores_result(games, current_time, name) ==
    IF games = <<>> THEN [exc |-> "none", primary |-> 0, next |-> 0,
                          value |-> Placeholder(name)]
    ELSE
    LET sel == select_primary_and_next_games(games, current_time)
    IN  IF sel.primary = 0
        THEN [exc |-> "TypeError", primary |-> 0, next |-> sel.next,
              value |-> Placeholder(name)]
        ELSE [exc |-> "none", primary |-> sel.primary, next |-> sel.next,
              value |->
                [kind |-> "game", game |-> games[sel.primary],
                 next_game |->
                    IF sel.next # 0
                    THEN << [opponent |-> games[sel.next].opponent,
                             game_date |-> games[sel.next].game_date,
                             venue |-> games[sel.next].venue] >>
                    ELSE <<>>]]

\* _find_team_game, lines 549-560, for one day's data: the first event with
\* a matching competitor
FindInDay(data, name) ==
    IF data.kind # "dict" THEN [exc |-> "AttributeError", found |-> FALSE]
    ELSE
    LET Matches(game) ==
            \E k \in 1..Len(game.competitors) :
                team_name_matches(name,
                    IF game.competitors[k].displayName = <<"absent">>
                    THEN <<>> ELSE game.competitors[k].displayName)
        F[k \in 1..(Len(data.events) + 1)] ==
            IF k > Len(data.events) THEN [exc |-> "none", found |-> FALSE]
            ELSE IF data.events[k].competitions = "empty"
            THEN [exc |-> "IndexError", found |-> FALSE]
            ELSE IF data.events[k].competitions = "present"
                    /\ Matches(data.events[k])
            THEN [exc |-> "none", found |-> TRUE,
                  game_id |-> data.events[k].id]
            ELSE F[k + 1]
    IN  F[1]

\* _parse_detailed_game_data, lines 570-635: the whole body is guarded
parse_detailed_game_data(data, game) ==
    IF data.header = "empty_competitions"
    THEN ErrorResult("Error parsing game data", "IndexError")
    ELSE [kind |-> "detail", game_id |-> game]

\* get_detailed_game_data, lines 518-530, given the helper's outcome r
detail_result(r, game) ==
    IF r.exc \in RequestExceptions
    THEN ErrorResult("Network error", r.exc)
    ELSE IF r.exc # "none"
    THEN IF DetailOuterCatches(r.exc)
         THEN ErrorResult("Failed to fetch detailed data", r.exc)
         ELSE Raised(r.exc)
    ELSE IF r.data.kind # "dict" \/ r.data.empty
    THEN ErrorResult("Failed to fetch detailed data", "none")
    ELSE parse_detailed_game_data(r.data, game)

(***************************************************************************)
(* Inputs: what callers pass and what the upstream may answer.             *)
(***************************************************************************)
SportInputs ==
    { <<"N","B","A">>,
      <<"c","r","i","c","k","e","t">>, <<"n","b","a"," ">>, <<>> }

Comp(id, name, score) ==
    [has_id |-> TRUE, id |-> id, displayName |-> name, score |-> score]

GoodEvent(day, status) ==
    [id |-> 400 + day, competitions |-> "present",
     competitors |-> <<Comp(1, NewYorkYankees, "3"), Comp(2, BostonRedSox, "1")>>,
     date |-> [form |-> "Z", t |-> day * DayLen],
     status_name |-> status, venue |-> "Arena"]

\* an event whose competitions list is empty
EmptyCompsEvent(day) ==
    [GoodEvent(day, "STATUS_FINAL") EXCEPT !.competitions = "empty"]

\* an event whose first competitor has no id
NoIdEvent(day) ==
    [GoodEvent(day, "STATUS_FINAL") EXCEPT !.competitors[1].has_id = FALSE]

\* the statuses the upstream reports for a game of the given day
MainStatuses(day, today) ==
    IF day < today THEN {"STATUS_FINAL"}
    ELSE IF day = today THEN {"STATUS_IN_PROGRESS"}
    ELSE IF day = today + 1 THEN {"STATUS_POSTPONED"}
    ELSE {"STATUS_SCHEDULED"}

Dict(events) == [kind |-> "dict", events |-> events]

MainPayloads(day, today) ==
    { [kind |-> "null"], Dict(<<>>), Dict(<<EmptyCompsEvent(day)>>),
      Dict(<<NoIdEvent(day)>>),
      Dict(<<GoodEvent(day, "STATUS_FINAL"), EmptyCompsEvent(day)>>) }
    \cup { Dict(<<GoodEvent(day, st)>>) : st \in MainStatuses(day, today) }

FailedAttempts == { [exc |-> e] : e \in {"Timeout", "HTTPError", "JSONDecodeError"} }

MainAttempts(day, today) ==
    FailedAttempts
        \cup { [exc |-> "none", data |-> d] : d \in MainPayloads(day, today) }

\* the answers to the attempts of one helper call: a second attempt is made
\* only after a first one that failed with a RequestException
AttemptPairs(answers) ==
    { <<a1, a1>> : a1 \in {a \in answers : a.exc \notin RequestExceptions} }
        \cup ({a \in answers : a.exc \in RequestExceptions} \X answers)

NowInputs == {MaxTime}

SummaryPayloads ==
    { [kind |-> "null"],
      [kind |-> "dict", empty |-> TRUE, header |-> "absent"],
      [kind |-> "dict", empty |-> FALSE, header |-> "present"],
      [kind |-> "dict", empty |-> FALSE, header |-> "empty_competitions"] }

SummaryAttempts ==
    FailedAttempts \cup { [exc |-> "none", data |-> d] : d \in SummaryPayloads }

NoData == [kind |-> "null"]
NoResult == [kind |-> "none"]
EmptyCache == [k \in {} |-> NoData]

(***************************************************************************)
(* Spec: one request served by a freshly constructed SportsAPI.            *)
(***************************************************************************)
Init ==
    /\ pc = "idle"
    /\ op = "none"
    /\ sport = <<>>
    /\ team_name = <<>>
    /\ now = 0
    /\ day_idx = 1
    /\ team_games = <<>>
    /\ result = NoResult
    /\ primary_game = 0
    /\ next_game = 0
    /\ api_cache = EmptyCache
    /\ requested = {}
    /\ game_info = 0
    /\ day_data = NoData

\* the URLs an outbound request was sent to: a call answered from the
\* cache sends none (lines 96-102)
Outbound(urls, url, r) == IF r.calls > 0 THEN urls \cup {url} ELSE urls

\* get_scores is called: lines 129-156
GetScoresStart ==
    /\ pc = "idle"
    /\ \E s \in SportInputs, t \in TeamInputs, n \in NowInputs :
        /\ op' = "scores"
        /\ sport' = s
        /\ team_name' = t
        /\ now' = n
        /\ IF scores_base_url(s).ok
           THEN pc' = "scan" /\ result' = result
           ELSE pc' = "done" /\ result' = ErrorResult("Sport not supported", "none")
    /\ day_idx' = 1
    /\ team_games' = <<>>
    /\ UNCHANGED <<primary_game, next_game, api_cache, game_info, day_data,
                   requested>>

\* one iteration of the day loop of get_scores: lines 159-235, 264-265
ScoresFetchDay ==
    /\ pc = "scan"
    /\ op = "scores"
    /\ day_idx <= Len(ScoreOffsets)
    /\ LET date_str == DateStr(now, ScoreOffsets[day_idx])
           url == ScoreboardUrl(scores_base_url(sport).base_url, date_str)
       IN  \E attempts \in AttemptPairs(MainAttempts(date_str, DateStr(now, 0))) :
            LET r == make_api_request(api_cache, url, attempts)
                scanned == IF r.exc = "none"
                           THEN ScanDay(r.data, team_name, team_games)
                           ELSE [exc |-> r.exc, team_games |-> team_games]
            IN  /\ api_cache' = r.cache
                /\ requested' = Outbound(requested, url, r)
                /\ team_games' = scanned.team_games
                /\ IF scanned.exc = "none" \/ DayCatches(scanned.exc)
                   THEN /\ day_idx' = day_idx + 1
                        /\ UNCHANGED <<pc, result>>
                   ELSE /\ pc' = "done"
                        /\ result' = IF ScoresOuterCatches(scanned.exc)
                                     THEN ErrorResult("Failed to fetch data",
                                                      scanned.exc)
                                     ELSE Raised(scanned.exc)
                        /\ UNCHANGED day_idx
    /\ UNCHANGED <<op, sport, team_name, now, primary_game, next_game,
                   game_info, day_data>>

\* get_scores after the loop: lines 237-265
ScoresFinish ==
    /\ pc = "scan"
    /\ op = "scores"
    /\ day_idx > Len(ScoreOffsets)
    /\ LET r == scores_result(team_games, now, team_name)
       IN  /\ primary_game' = r.primary
           /\ next_game' = r.next
           /\ result' = IF r.exc = "none" THEN r.value
                        ELSE IF ScoresOuterCatches(r.exc)
                        THEN ErrorResult("Failed to fetch data", r.exc)
                        ELSE Raised(r.exc)
    /\ pc' = "done"
    /\ UNCHANGED <<op, sport, team_name, now, day_idx, team_games, api_cache,
                   game_info, day_data, requested>>

\* get_detailed_game_data is called: lines 487-511
GetDetailStart ==
    /\ pc = "idle"
    /\ \E s \in SportInputs, t \in TeamInputs, n \in NowInputs :
        /\ op' = "detail"
        /\ sport' = s
        /\ team_name' = t
        /\ now' = n
        /\ IF detail_base_url(s).ok
           THEN pc' = "find" /\ result' = result
           ELSE pc' = "done" /\ result' = ErrorResult("Sport not supported", "none")
    /\ day_idx' = 1
    /\ UNCHANGED <<team_games, primary_game, next_game, api_cache, game_info,
                   day_data, requested>>

\* one iteration of the day loop of _find_team_game: lines 540-563, 567-568,
\* and the return of its error by get_detailed_game_data, lines 512-513
FindTeamGameDay ==
    /\ pc = "find"
    /\ day_idx <= Len(FindOffsets)
    /\ LET date_str == DateStr(now, FindOffsets[day_idx])
           url == ScoreboardUrl(detail_base_url(sport).base_url, date_str)
       IN  \E attempts \in AttemptPairs(MainAttempts(date_str, DateStr(now, 0))) :
            LET r == make_api_request(api_cache, url, attempts)
                f == IF r.exc = "none" THEN FindInDay(r.data, team_name)
                     ELSE [exc |-> r.exc, found |-> FALSE]
            IN  /\ api_cache' = r.cache
                /\ requested' = Outbound(requested, url, r)
                /\ IF f.exc = "none" /\ f.found
                   THEN /\ game_info' = f.game_id
                        /\ pc' = "summary"
                        /\ UNCHANGED <<day_idx, result>>
                   ELSE IF f.exc = "none" \/ DayCatches(f.exc)
                   THEN /\ day_idx' = day_idx + 1
                        /\ UNCHANGED <<pc, result, game_info>>
                   ELSE /\ pc' = "done"
                        /\ result' = IF FindOuterCatches(f.exc)
                                     THEN ErrorResult("Error finding game", f.exc)
                                     ELSE IF DetailOuterCatches(f.exc)
                                     THEN ErrorResult("Failed to fetch detailed data",
                                                      f.exc)
                                     ELSE Raised(f.exc)
                        /\ UNCHANGED <<day_idx, game_info>>
    /\ UNCHANGED <<op, sport, team_name, now, team_games, primary_game,
                   next_game, day_data>>

\* _find_team_game after the loop: line 565, returned by lines 512-513
FindTeamGameNone ==
    /\ pc = "find"
    /\ day_idx > Len(FindOffsets)
    /\ result' = ErrorResult("No recent games found", "none")
    /\ pc' = "done"
    /\ UNCHANGED <<op, sport, team_name, now, day_idx, team_games,
                   primary_game, next_game, api_cache, game_info, day_data,
                   requested>>

\* the summary request of get_detailed_game_data: lines 515-530
FetchSummary ==
    /\ pc = "summary"
    /\ LET url == SummaryUrl(detail_base_url(sport).base_url, game_info)
       IN  \E attempts \in AttemptPairs(SummaryAttempts) :
            LET r == make_api_request(api_cache, url, attempts)
            IN  /\ api_cache' = r.cache
                /\ requested' = Outbound(requested, url, r)
                /\ result' = detail_result(r, game_info)
    /\ pc' = "done"
    /\ UNCHANGED <<op, sport, team_name, now, day_idx, team_games,
                   primary_game, next_game, game_info, day_data>>

Next ==
    \/ GetScoresStart
    \/ ScoresFetchDay
    \/ ScoresFinish
    \/ GetDetailStart
    \/ FindTeamGameDay
    \/ FindTeamGameNone
    \/ FetchSummary

Spec == Init /\ [][Next]_vars

(***************************************************************************)
(* SpecSelect: _select_primary_and_next_games applied to every list of at  *)
(* most MaxGames games and every current time.                             *)
(***************************************************************************)
SelectStatuses ==
    {"STATUS_SCHEDULED", "STATUS_IN_PROGRESS", "STATUS_HALFTIME",
     "STATUS_FINAL", "STATUS_FINAL_OT", "STATUS_POSTPONED"}

SelectGames == { [status_type |-> st, game_date |-> t] :
                    st \in SelectStatuses, t \in Times }

InitSelect ==
    /\ pc = "select"
    /\ op = "select"
    /\ sport = <<>>
    /\ team_name = <<>>
    /\ now \in Times
    /\ day_idx = 1
    /\ team_games \in UNION { [1..n -> SelectGames] : n \in 0..MaxGames }
    /\ result = NoResult
    /\ primary_game = 0
    /\ next_game = 0
    /\ api_cache = EmptyCache
    /\ requested = {}
    /\ game_info = 0
    /\ day_data = NoData

SelectStep ==
    /\ pc = "select"
    /\ LET sel == select_primary_and_next_games(team_games, now)
       IN  /\ primary_game' = sel.primary
           /\ next_game' = sel.next
    /\ pc' = "selected"
    /\ UNCHANGED <<op, sport, team_name, now, day_idx, team_games, result,
                   api_cache, game_info, day_data, requested>>

NextSelect == SelectStep

SpecSelect == InitSelect /\ [][NextSelect]_vars

\* vocabulary of the selection claims
Idx == 1..Len(team_games)
IsInProgress(i) == team_games[i].status_type \in {"STATUS_IN_PROGRESS", "STATUS_HALFTIME"}
IsCompleted(i) == team_games[i].status_type \in {"STATUS_FINAL", "STATUS_FINAL_OT"}
IsScheduled(i) == team_games[i].status_type = "STATUS_SCHEDULED"
StartsToday(i) ==
    /\ now - (now % DayLen) <= team_games[i].game_date
    /\ team_games[i].game_date < now - (now % DayLen) + DayLen
Selected == pc = "selected"

\* next is a scheduled game of earliest start time, or none if none is scheduled
NextIsEarliestScheduled ==
    IF \E i \in Idx : IsScheduled(i)
    THEN /\ next_game \in Idx
         /\ IsScheduled(next_game)
         /\ \A j \in Idx : IsScheduled(j) =>
                team_games[next_game].game_date <= team_games[j].game_date
    ELSE next_game = 0

\* C1: when a game is IN_PROGRESS or HALFTIME, primary is the first such game
\* in input order and next is the earliest scheduled game (none if no game is
\* scheduled)
C1_InProgressFirst ==
    (Selected /\ \E i \in Idx : IsInProgress(i)) =>
        /\ primary_game \in Idx
        /\ IsInProgress(primary_game)
        /\ \A j \in Idx : IsInProgress(j) => primary_game <= j
        /\ NextIsEarliestScheduled

C1_Witness ==
    /\ Selected
    /\ Len(team_games) = 3
    /\ IsScheduled(1) /\ IsInProgress(2) /\ IsScheduled(3)
    /\ team_games[3].game_date < team_games[1].game_date
    /\ team_games[2].game_date > team_games[1].game_date
    /\ primary_game = 2
    /\ next_game = 3

\* C2: with no game in progress and a completed game that started today,
\* primary is the completed game of today with the latest start time
C2_TodaysCompleted ==
    (/\ Selected
     /\ ~\E i \in Idx : IsInProgress(i)
     /\ \E i \in Idx : IsCompleted(i) /\ StartsToday(i)) =>
        /\ primary_game \in Idx
        /\ IsCompleted(primary_game)
        /\ StartsToday(primary_game)
        /\ \A j \in Idx : (IsCompleted(j) /\ StartsToday(j)) =>
                team_games[j].game_date <= team_games[primary_game].game_date

C2_Witness ==
    /\ Selected
    /\ Len(team_games) = 3
    /\ \A i \in Idx : IsCompleted(i)
    /\ StartsToday(1) /\ StartsToday(2) /\ ~StartsToday(3)
    /\ team_games[1].game_date < team_games[2].game_date
    /\ team_games[2].game_date < team_games[3].game_date
    /\ primary_game = 2

\* C3: with no game in progress, some completed game and none of them started
\* today, primary is the completed game with the latest start time, also when
\* a game is scheduled for today, and next is the earliest scheduled game
C3_LatestCompleted ==
    (/\ Selected
     /\ ~\E i \in Idx : IsInProgress(i)
     /\ \E i \in Idx : IsCompleted(i)
     /\ ~\E i \in Idx : IsCompleted(i) /\ StartsToday(i)) =>
        /\ primary_game \in Idx
        /\ IsCompleted(primary_game)
        /\ \A j \in Idx : IsCompleted(j) =>
                team_games[j].game_date <= team_games[primary_game].game_date
        /\ NextIsEarliestScheduled

C3_Witness ==
    /\ Selected
    /\ Len(team_games) = 3
    /\ IsScheduled(1) /\ StartsToday(1)
    /\ IsCompleted(2) /\ IsCompleted(3)
    /\ ~StartsToday(2) /\ ~StartsToday(3)
    /\ team_games[2].game_date < team_games[3].game_date
    /\ primary_game = 3
    /\ next_game = 1

\* C4: when every game is SCHEDULED, primary is the earliest game, next is the
\* earliest of the other games, and next is none exactly when there is one game
C4_OnlyScheduled ==
    (Selected /\ team_games # <<>> /\ \A i \in Idx : IsScheduled(i)) =>
        /\ primary_game \in Idx
        /\ \A j \in Idx :
                team_games[primary_game].game_date <= team_games[j].game_date
        /\ (next_game = 0) <=> (Len(team_games) = 1)
        /\ next_game # 0 =>
            /\ next_game \in Idx \ {primary_game}
            /\ \A j \in Idx \ {primary_game} :
                    team_games[next_game].game_date <= team_games[j].game_date

C4_Witness ==
    /\ Selected
    /\ Len(team_games) = 3
    /\ \A i \in Idx : IsScheduled(i)
    /\ team_games[2].game_date < team_games[3].game_date
    /\ team_games[3].game_date < team_games[1].game_date
    /\ primary_game = 2
    /\ next_game = 3

(***************************************************************************)
(* SpecScan: the event scan of get_scores applied to one day's data, for   *)
(* every status name, score and start-time form the upstream may send.     *)
(***************************************************************************)
RedSox == <<"R","e","d"," ","S","o","x">>

ScanStatuses ==
    {"STATUS_SCHEDULED", "STATUS_IN_PROGRESS", "STATUS_HALFTIME",
     "STATUS_FINAL", "STATUS_FINAL_OT", "STATUS_POSTPONED", "absent"}

ScanScores == {"absent", "0", "7"}

ScanDates == { [form |-> "Z", t |-> 0], [form |-> "absent", t |-> 0],
               [form |-> "bad", t |-> 0] }

ScanEvents ==
    { [id |-> 401, competitions |-> c,
       competitors |-> <<Comp(1, NewYorkYankees, s1), Comp(2, BostonRedSox, s2)>>,
       date |-> d, status_name |-> st, venue |-> v] :
        c \in {"present", "absent", "empty"}, s1 \in ScanScores,
        s2 \in ScanScores, d \in ScanDates, st \in ScanStatuses,
        v \in {"", "Arena"} }

InitScan ==
    /\ pc = "scan_day"
    /\ op = "scan"
    /\ sport = <<>>
    /\ team_name \in {Yankees, RedSox}
    /\ now = 0
    /\ day_idx = 1
    /\ team_games = <<>>
    /\ result = NoResult
    /\ primary_game = 0
    /\ next_game = 0
    /\ api_cache = EmptyCache
    /\ requested = {}
    /\ game_info = 0
    /\ day_data \in { Dict(<<e>>) : e \in ScanEvents }

ScanStep ==
    /\ pc = "scan_day"
    /\ LET scanned == ScanDay(day_data, team_name, team_games)
       IN  /\ team_games' = scanned.team_games
           /\ result' = [kind |-> "scanned", exc |-> scanned.exc]
    /\ pc' = "scanned"
    /\ UNCHANGED <<op, sport, team_name, now, day_idx, primary_game,
                   next_game, api_cache, game_info, day_data, requested>>

NextScan == ScanStep

SpecScan == InitScan /\ [][NextScan]_vars

\* C5: when the day loop of get_scores ends with no game collected, the
\* result is the "No games found" placeholder with no next game, and the
\* selection of the empty list is (none, none)
C5_EmptyGivesPlaceholder ==
    /\ select_primary_and_next_games(<<>>, now) = [primary |-> 0, next |-> 0]
    /\ (pc = "done" /\ op = "scores" /\ day_idx > Len(ScoreOffsets)
            /\ team_games = <<>>) =>
        /\ result.kind = "placeholder"
        /\ result.opponent = "No games found"
        /\ result.next_game = <<>>
        /\ primary_game = 0
        /\ next_game = 0

C5_Witness ==
    /\ pc = "done"
    /\ op = "scores"
    /\ day_idx > Len(ScoreOffsets)
    /\ team_games = <<>>
    /\ result.kind = "placeholder"
    /\ \E k \in DOMAIN api_cache :
            api_cache[k].kind = "dict" /\ api_cache[k].events # <<>>

\* C6: a game record whose status is not IN_PROGRESS, HALFTIME, FINAL or
\* FINAL_OT shows "-" for both scores, whatever scores the upstream sent
C6_PlaceholderScores ==
    \A i \in 1..Len(team_games) :
        team_games[i].status_type \notin
            {"STATUS_IN_PROGRESS", "STATUS_HALFTIME", "STATUS_FINAL",
             "STATUS_FINAL_OT"} =>
            /\ team_games[i].team_score = "-"
            /\ team_games[i].opponent_score = "-"

C6_Witness ==
    /\ pc = "scanned"
    /\ Len(team_games) = 1
    /\ team_games[1].status_type = "STATUS_POSTPONED"
    /\ day_data.events[1].competitors[1].score = "7"
    /\ day_data.events[1].competitors[2].score = "7"
    /\ team_games[1].team_score = "-"
    /\ team_games[1].opponent_score = "-"

\* C7: every game record has a status among SCHEDULED, IN_PROGRESS, HALFTIME,
\* FINAL, FINAL_OT; an unrecognized upstream status name becomes SCHEDULED
C7_StatusIsCategory ==
    \A i \in 1..Len(team_games) :
        team_games[i].status_type \in
            {"STATUS_SCHEDULED", "STATUS_IN_PROGRESS", "STATUS_HALFTIME",
             "STATUS_FINAL", "STATUS_FINAL_OT"}

\* C8: a failure while fetching or scanning one day (timeout, request error,
\* malformed JSON, missing key, event of unexpected shape) never ends
\* get_scores with an error: the other days are fetched and their games used
C8_DayFailureIsLocal ==
    (pc = "done" /\ op = "scores" /\ result.kind = "error") =>
        result.exc \notin {"Timeout", "HTTPError", "JSONDecodeError",
                           "KeyError", "IndexError"}

\* C9: get_scores and get_detailed_game_data never raise: each call ends with
\* a success object, the placeholder or an error object
C9_NeverRaises ==
    /\ result.kind # "raised"
    /\ pc = "done" =>
        result.kind \in {"game", "detail", "placeholder", "error"}

C9_Witness ==
    /\ pc = "done"
    /\ op = "scores"
    /\ result.kind = "error"
    /\ result.exc = "AttributeError"

\* C10: a sport that is none of the eight supported names, compared without
\* regard to letter case, gives the error result "Sport not supported"
C10_UnsupportedSport ==
    (/\ pc = "done"
     /\ op \in {"scores", "detail"}
     /\ StrLower(sport) \notin
            { <<"n","b","a">>, <<"w","n","b","a">>, <<"n","f","l">>,
              <<"m","l","s">>,
              <<"p","r","e","m","i","e","r"," ","l","e","a","g","u","e">>,
              <<"l","a"," ","l","i","g","a">>, <<"m","l","b">>,
              <<"n","h","l">> }) =>
        /\ result.kind = "error"
        /\ result.error = "Sport not supported"

C10_Witness ==
    /\ pc = "done"
    /\ op = "scores"
    /\ sport = <<"n","b","a"," ">>
    /\ result.kind = "error"
    /\ result.error = "Sport not supported"

(***************************************************************************)
(* StatsExtractor: _parse_game_leaders and the strategies it chains.       *)
(* A leaders map is a function from category names to sequences of         *)
(* [name, value, team] entries; stat values are strings of characters.     *)
(***************************************************************************)
EmptyLeaders == [c \in {} |-> <<>>]

RECURSIVE Concat(_)
Concat(seqs) ==
    IF seqs = <<>> THEN <<>> ELSE Head(seqs) \o Concat(Tail(seqs))

DigitVal(c) ==
    CASE c = "0" -> 0 [] c = "1" -> 1 [] c = "2" -> 2 [] c = "3" -> 3
      [] c = "4" -> 4 [] c = "5" -> 5 [] c = "6" -> 6 [] c = "7" -> 7
      [] c = "8" -> 8 [] c = "9" -> 9 [] OTHER -> -1

RECURSIVE DigitsValue(_)
DigitsValue(ds) ==
    IF ds = <<>> THEN 0
    ELSE 10 * DigitsValue(SubSeq(ds, 1, Len(ds) - 1)) + DigitVal(ds[Len(ds)])

RECURSIVE Pow10(_)
Pow10(n) == IF n = 0 THEN 1 ELSE 10 * Pow10(n - 1)

\* the sign of a stripped numeric literal and the literal without it
Sign(t) == IF t # <<>> /\ t[1] = "-" THEN -1 ELSE 1

Unsigned(t) == IF t # <<>> /\ t[1] \in {"-", "+"} THEN Tail(t) ELSE t

FloatOfParts(sign, digits, points, len) ==
    IF /\ Cardinality(points) <= 1
       /\ digits # <<>>
       /\ \A i \in 1..Len(digits) : DigitVal(digits[i]) >= 0
    THEN [ok |-> TRUE, num |-> sign * DigitsValue(digits),
          den |-> Pow10(IF points = {} THEN 0
                        ELSE len - (CHOOSE i \in points : TRUE))]
    ELSE [ok |-> FALSE, num |-> 0, den |-> 1]

FloatOfBody(sign, body) ==
    FloatOfParts(sign, SelectSeq(body, LAMBDA c : c # "."),
                 {i \in 1..Len(body) : body[i] = "."}, Len(body))

FloatOfStripped(t) == FloatOfBody(Sign(t), Unsigned(t))

\* float(str) for decimal literals: surrounding whitespace is dropped, one
\* sign and one point are allowed, at least one digit is required; anything
\* else is a ValueError.  The value is the fraction num / den.
ParseFloat(str) == FloatOfStripped(StrStrip(str))

\* a.numeric_value > b.numeric_value
NumGreater(a, b) == a.num * b.den > b.num * a.den

SortByNumericValue_ascending(entries) ==
    LET n == Len(entries)
        rank(i) == Cardinality({j \in 1..n :
                      \/ NumGreater(entries[i], entries[j])
                      \/ (~NumGreater(entries[j], entries[i]) /\ j < i)}) + 1
    IN  [k \in 1..n |-> entries[CHOOSE i \in 1..n : rank(i) = k]]

\* list.sort(key=numeric_value, reverse=True): descending and stable
SortByNumericValue(entries) ==
    LET n == Len(entries)
        rank(i) == Cardinality({j \in 1..n :
                      \/ NumGreater(entries[j], entries[i])
                      \/ (~NumGreater(entries[i], entries[j]) /\ j < i)}) + 1
    IN  [k \in 1..n |-> entries[CHOOSE i \in 1..n : rank(i) = k]]

TopN == 3

\* the first limit entries of a sorted list, the numeric sort key dropped
FirstEntries(sorted, limit) ==
    [k \in 1..(IF Len(sorted) < limit THEN Len(sorted) ELSE limit) |->
        [name |-> sorted[k].name, value |-> sorted[k].value,
         team |-> sorted[k].team]]

\* category_leaders.sort(...) followed by category_leaders[:3]
TopLeaders(entries) == FirstEntries(SortByNumericValue(entries), TopN)

\* the athletes of a box score in team, group, athlete order, each with its
\* team abbreviation and group name; a null statistics value and a group
\* that is not a dict are skipped, and so is an athlete whose
\* stats list is empty (lines 947-987 and 1150-1170)
AllAthletes(players) ==
    Concat([t \in 1..Len(players) |->
        IF players[t].statistics_null THEN <<>>
        ELSE Concat([g \in 1..Len(players[t].statistics) |->
            LET group == players[t].statistics[g]
            IN  IF group.kind # "dict" THEN <<>>
                ELSE Concat([a \in 1..Len(group.athletes) |->
                    IF group.athletes[a].stats = <<>> THEN <<>>
                    ELSE << [name |-> group.athletes[a].displayName,
                             team |-> players[t].abbreviation,
                             position_group |-> group.name,
                             stats |-> group.athletes[a].stats] >>])])])

SkippedValues == { <<"-","-">>, <<>>, <<"0">> }

\* stats[index] for the first of the candidate positions hits, <<>> if none
ValueAtFirst(stats, indices, hits) ==
    IF hits = {} THEN <<>>
    ELSE stats[indices[CHOOSE k \in hits : \A h \in hits : k <= h] + 1]

\* the value the index loop of _extract_leaders_by_indices leaves in
\* stat_value (lines 1173-1177): the first candidate index that exists and
\* does not hold '--', '' or '0'; <<>> stands for None, which the test of
\* line 1179 treats like the empty string
FirstListedValue(stats, indices) ==
    ValueAtFirst(stats, indices,
                 {k \in 1..Len(indices) :
                    /\ Len(stats) > indices[k]
                    /\ stats[indices[k] + 1] \notin SkippedValues})

\* the dict appended to category_leaders
NumericEntry(athlete, stat_value, numeric_value) ==
    << [name |-> athlete.name, value |-> stat_value, team |-> athlete.team,
        num |-> numeric_value.num, den |-> numeric_value.den] >>

\* lines 1182-1190: float() and the test numeric_value > 0
PositiveEntry(athlete, stat_value, numeric_value) ==
    IF numeric_value.ok /\ numeric_value.num > 0
    THEN NumericEntry(athlete, stat_value, numeric_value)
    ELSE <<>>

\* line 1179: the entry of one athlete for a stat_value, if any
EntryOfValue(athlete, stat_value) ==
    IF stat_value = <<>> THEN <<>>
    ELSE PositiveEntry(athlete, stat_value, ParseFloat(stat_value))

\* lines 1173-1190: the entry of one athlete for one category, if any
IndexedEntry(athlete, indices) ==
    EntryOfValue(athlete, FirstListedValue(athlete.stats, indices))

CategoryNames(stat_categories) ==
    {stat_categories[k].name : k \in 1..Len(stat_categories)}

CategoryOf(stat_categories, name) ==
    stat_categories[CHOOSE k \in 1..Len(stat_categories) :
                        stat_categories[k].name = name]

\* lines 1172-1198 for the collected athletes: the sorted and cut entries of
\* every category that has any
LeadersOfAthletes(athletes, stat_categories) ==
    LET found(n) ==
            Concat([a \in 1..Len(athletes) |->
                IndexedEntry(athletes[a], CategoryOf(stat_categories, n).indices)])
    IN  [n \in {m \in CategoryNames(stat_categories) : found(m) # <<>>} |->
            TopLeaders(found(n))]

\* _extract_leaders_by_indices: a team entry that is not a dict makes
\* team_data.get raise, and nothing in this method catches it
extract_leaders_by_indices(players, stat_categories) ==
    IF \E t \in 1..Len(players) : players[t].kind # "dict"
    THEN [exc |-> "AttributeError", leaders |-> EmptyLeaders]
    ELSE [exc |-> "none",
          leaders |-> LeadersOfAthletes(AllAthletes(players), stat_categories)]

basketball_categories ==
    << [name |-> "Points", indices |-> <<0, 12, 13>>],
       [name |-> "Rebounds", indices |-> <<1, 7, 8>>],
       [name |-> "Assists", indices |-> <<2, 5, 6>>],
       [name |-> "Steals", indices |-> <<3, 9, 10>>],
       [name |-> "Blocks", indices |-> <<4, 11>>] >>

football_categories ==
    << [name |-> "Passing Yards", indices |-> <<0, 1, 8, 9>>],
       [name |-> "Rushing Yards", indices |-> <<2, 3, 10, 11>>],
       [name |-> "Receiving Yards", indices |-> <<4, 5, 12, 13>>],
       [name |-> "Touchdowns", indices |-> <<6, 7, 14, 15>>],
       [name |-> "Tackles", indices |-> <<16, 17, 18>>] >>

soccer_categories ==
    << [name |-> "Goals", indices |-> <<0, 1>>],
       [name |-> "Assists", indices |-> <<2, 3>>],
       [name |-> "Shots", indices |-> <<4, 5>>],
       [name |-> "Saves", indices |-> <<6, 7, 8>>],
       [name |-> "Yellow Cards", indices |-> <<9, 10>>] >>

hockey_categories ==
    << [name |-> "Goals", indices |-> <<0, 1>>],
       [name |-> "Assists", indices |-> <<2, 3>>],
       [name |-> "Points", indices |-> <<4, 5>>],
       [name |-> "Saves", indices |-> <<6, 7, 8>>],
       [name |-> "Penalty Minutes", indices |-> <<9, 10>>] >>

generic_categories ==
    << [name |-> "Performance", indices |-> <<0, 1, 2>>],
       [name |-> "Key Stats", indices |-> <<3, 4, 5>>],
       [name |-> "Other Stats", indices |-> <<6, 7, 8>>] >>

IsPositive(numeric_value) == numeric_value.ok /\ numeric_value.num > 0

\* the index loop of _find_mlb_stat_leaders (lines 1045-1056): a candidate
\* that float() rejects or that is not positive is passed over and the
\* next candidate index is tried
FirstPositiveValue(stats, indices) ==
    ValueAtFirst(stats, indices,
                 {k \in 1..Len(indices) :
                    /\ Len(stats) > indices[k]
                    /\ stats[indices[k] + 1] \notin SkippedValues
                    /\ IsPositive(ParseFloat(stats[indices[k] + 1]))})

batting_groups ==
    { <<"b","a","t","t","i","n","g">>, <<"h","i","t","t","e","r","s">>,
      <<"o","f","f","e","n","s","e">> }

pitching_groups ==
    { <<"p","i","t","c","h","i","n","g">>, <<"p","i","t","c","h","e","r","s">> }

\* lines 1035-1039: any(group.lower() in player['position_group'].lower())
GroupMatch(player, position_groups) ==
    \E group \in position_groups :
        StrContains(StrLower(player.position_group), StrLower(group))

\* lines 1058-1065: the entry appended for a player whose stat_value is set
MlbEntry(player, stat_value) ==
    IF stat_value = <<>> THEN <<>>
    ELSE NumericEntry(player, stat_value, ParseFloat(stat_value))

\* _find_mlb_stat_leaders: position_groups = {} means no position filter
find_mlb_stat_leaders(all_players, position_groups, stat_indices) ==
    TopLeaders(Concat([a \in 1..Len(all_players) |->
        IF position_groups # {} /\ ~GroupMatch(all_players[a], position_groups)
        THEN <<>>
        ELSE MlbEntry(all_players[a],
                      FirstPositiveValue(all_players[a].stats, stat_indices))]))

mlb_position_categories ==
    << [name |-> "Hits", groups |-> batting_groups, indices |-> <<0, 1, 2, 3, 4>>],
       [name |-> "RBIs", groups |-> batting_groups, indices |-> <<1, 2, 3, 4, 5>>],
       [name |-> "Home Runs", groups |-> batting_groups, indices |-> <<2, 3, 4, 5, 6>>],
       [name |-> "Runs Scored", groups |-> batting_groups, indices |-> <<3, 4, 5, 6, 7>>],
       [name |-> "Strikeouts (Pitching)", groups |-> pitching_groups,
        indices |-> <<0, 1, 2, 3, 4>>],
       [name |-> "Innings Pitched", groups |-> pitching_groups,
        indices |-> <<1, 2, 3, 4, 5>>] >>

mlb_unfiltered_categories ==
    << [name |-> "Performance Stat 1", groups |-> {}, indices |-> <<0, 1, 2>>],
       [name |-> "Performance Stat 2", groups |-> {}, indices |-> <<1, 2, 3>>],
       [name |-> "Performance Stat 3", groups |-> {}, indices |-> <<2, 3, 4>>],
       [name |-> "Performance Stat 4", groups |-> {}, indices |-> <<3, 4, 5>>] >>

\* the dict mlb_categories built from one table (lines 992-999, 1004-1009)
MlbCategories(all_players, categories) ==
    [n \in CategoryNames(categories) |->
        find_mlb_stat_leaders(all_players, CategoryOf(categories, n).groups,
                              CategoryOf(categories, n).indices)]

\* line 1012: {k: v for k, v in mlb_categories.items() if v}
NonEmptyCategories(categories) ==
    [n \in {m \in DOMAIN categories : categories[m] # <<>>} |-> categories[n]]

PositionOrUnfiltered_merged(position, all_players) ==
    NonEmptyCategories(
        position @@ MlbCategories(all_players, mlb_unfiltered_categories))

\* lines 1002-1012: the position categories, or the unfiltered ones when
\* every position category is empty
PositionOrUnfiltered(position, all_players) ==
    IF \E n \in DOMAIN position : position[n] # <<>>
    THEN NonEmptyCategories(position)
    ELSE NonEmptyCategories(MlbCategories(all_players, mlb_unfiltered_categories))

MlbLeadersOf(all_players) ==
    PositionOrUnfiltered(MlbCategories(all_players, mlb_position_categories),
                         all_players)

\* _extract_mlb_leaders: its own try/except turns the AttributeError of a
\* team entry that is not a dict into the empty map
extract_mlb_leaders(players) ==
    IF \E t \in 1..Len(players) : players[t].kind # "dict"
    THEN [exc |-> "AttributeError", leaders |-> EmptyLeaders]
    ELSE [exc |-> "none", leaders |-> MlbLeadersOf(AllAthletes(players))]

\* the index table of each sport (lines 1084-1140)
categories_of_sport(s) ==
    IF s \in { <<"n","b","a">>, <<"w","n","b","a">> } THEN basketball_categories
    ELSE IF s = <<"n","f","l">> THEN football_categories
    ELSE IF s \in { <<"m","l","s">>,
                    <<"p","r","e","m","i","e","r"," ","l","e","a","g","u","e">>,
                    <<"l","a"," ","l","i","g","a">> }
    THEN soccer_categories
    ELSE IF s = <<"n","h","l">> THEN hockey_categories
    ELSE generic_categories

\* the sport dispatch of _extract_leaders_from_boxscore (lines 914-933)
boxscore_strategy_of(s, players) ==
    IF s = <<"m","l","b">> THEN extract_mlb_leaders(players)
    ELSE extract_leaders_by_indices(players, categories_of_sport(s))

\* the handler of line 935: an exception ends in the empty map
CaughtAsEmpty(r) ==
    IF r.exc # "none" THEN [exc |-> r.exc, leaders |-> EmptyLeaders] ELSE r

\* lines 903-933 for a non-empty players list.  The debug lines 903-909 read
\* players[0] as a dict and each of its statistics groups as a dict before
\* any extraction.
LeadersOfPlayers(players, sport_arg) ==
    IF players[1].kind # "dict"
    THEN [exc |-> "AttributeError", leaders |-> EmptyLeaders]
    ELSE IF players[1].statistics_null
    THEN [exc |-> "TypeError", leaders |-> EmptyLeaders]
    ELSE IF \E g \in 1..Len(players[1].statistics) :
               players[1].statistics[g].kind # "dict"
    THEN [exc |-> "AttributeError", leaders |-> EmptyLeaders]
    ELSE CaughtAsEmpty(boxscore_strategy_of(StrLower(sport_arg), players))

\* _extract_leaders_from_boxscore: every exception raised below it ends in
\* the empty map (line 935)
extract_leaders_from_boxscore(boxscore, sport_arg) ==
    IF boxscore.kind # "dict"
    THEN [exc |-> "AttributeError", leaders |-> EmptyLeaders]
    ELSE IF ~boxscore.players_key \/ boxscore.players = <<>>
    THEN [exc |-> "none", leaders |-> EmptyLeaders]
    ELSE LeadersOfPlayers(boxscore.players, sport_arg)

\* team_name of _parse_leaders_from_main_array (lines 769-774)
MainTeamName(team_data, team_index) ==
    IF team_data.team.abbreviation # "" THEN team_data.team.abbreviation
    ELSE "Team " \o ToString(team_index + 1)

\* category_name (lines 789-793)
MainCategoryName(stat_category, stat_index) ==
    IF stat_category.displayName # "" THEN stat_category.displayName
    ELSE "Category " \o ToString(stat_index)

\* lines 813-844: the entry of one player of one category, if it is kept
MainPlayerEntry(player_data, team) ==
    LET player_name == IF player_data.displayName # ""
                       THEN player_data.displayName ELSE "Unknown Player"
        stat_value == IF player_data.displayValue # <<>>
                      THEN player_data.displayValue ELSE <<"0">>
    IN  IF /\ player_name \notin {"Unknown Player", ""}
           /\ stat_value \notin { <<"0">>, <<>>, <<"N","/","A">>, <<"-","-">> }
        THEN << [name |-> player_name, value |-> stat_value, team |-> team] >>
        ELSE <<>>

\* _parse_leaders_from_main_array: entries are appended team by team and
\* player by player, and no length limit is applied; len(None) and
\* None.get raise inside the method's own try
parse_leaders_from_main_array(leaders_data) ==
    IF leaders_data.kind # "list"
    THEN [exc |-> "TypeError", leaders |-> EmptyLeaders]
    ELSE LET items == leaders_data.items
             dicts == {t \in 1..Len(items) : items[t].kind = "dict"}
         IN  IF \E t \in dicts : items[t].team.kind # "dict"
             THEN [exc |-> "AttributeError", leaders |-> EmptyLeaders]
             ELSE
             LET names == UNION { {MainCategoryName(items[t].leaders[c], c - 1) :
                                      c \in 1..Len(items[t].leaders)} : t \in dicts }
                 of_category(t, c, n) ==
                     IF MainCategoryName(items[t].leaders[c], c - 1) # n THEN <<>>
                     ELSE Concat([p \in 1..Len(items[t].leaders[c].leaders) |->
                             MainPlayerEntry(items[t].leaders[c].leaders[p],
                                             MainTeamName(items[t], t - 1))])
                 of_team(t, n) ==
                     IF t \notin dicts THEN <<>>
                     ELSE Concat([c \in 1..Len(items[t].leaders) |->
                                     of_category(t, c, n)])
                 entries(n) == Concat([t \in 1..Len(items) |-> of_team(t, n)])
                 kept == {n \in names : entries(n) # <<>>}
             IN  [exc |-> "none", leaders |-> [n \in kept |-> entries(n)]]

\* dict.update: the categories of the later map replace those of the earlier
UpdateLeaders(leaders, more) ==
    [n \in (DOMAIN leaders) \cup (DOMAIN more) |->
        IF n \in DOMAIN more THEN more[n] ELSE leaders[n]]

\* _extract_leaders_from_boxscore_nested: 'leaders' in team_data raises for
\* a team entry that is null
extract_leaders_from_boxscore_nested(boxscore) ==
    IF boxscore.kind # "dict"
    THEN [exc |-> "AttributeError", leaders |-> EmptyLeaders]
    ELSE IF boxscore.leaders_key
    THEN parse_leaders_from_main_array(boxscore.leaders)
    ELSE IF \E t \in 1..Len(boxscore.teams) : boxscore.teams[t].kind # "dict"
    THEN [exc |-> "TypeError", leaders |-> EmptyLeaders]
    ELSE LET teams == boxscore.teams
             of_team(t) ==
                 IF teams[t].leaders_key
                 THEN parse_leaders_from_main_array(
                          [kind |-> "list", items |-> <<teams[t]>>]).leaders
                 ELSE EmptyLeaders
             upto[t \in 0..Len(teams)] ==
                 IF t = 0 THEN EmptyLeaders
                 ELSE UpdateLeaders(upto[t - 1], of_team(t))
         IN  [exc |-> "none", leaders |-> upto[Len(teams)]]

IntOfBody(sign, body) ==
    IF body # <<>> /\ \A i \in 1..Len(body) : DigitVal(body[i]) >= 0
    THEN [ok |-> TRUE, value |-> sign * DigitsValue(body)]
    ELSE [ok |-> FALSE, value |-> 0]

IntOfStripped(t) == IntOfBody(Sign(t), Unsigned(t))

\* int(str): surrounding whitespace is dropped, one sign is allowed and
\* the rest must be digits; anything else is a ValueError
ParseInt(str) == IntOfStripped(StrStrip(str))

\* next((team for team in competitors if team.get('homeAway') == which), {})
\* with the defaults of lines 1216-1219 filled in
HeaderSide(competitors, which, hits) ==
    IF hits = {}
    THEN [score |-> <<"0">>,
          abbreviation |-> IF which = "home" THEN "HOME" ELSE "AWAY"]
    ELSE competitors[CHOOSE k \in hits : \A h \in hits : k <= h]

SideOf(competitors, which) ==
    HeaderSide(competitors, which,
               {k \in 1..Len(competitors) : competitors[k].homeAway = which})

\* int(score or 0)
ScoreInt(score) ==
    IF score = <<>> THEN [ok |-> TRUE, value |-> 0] ELSE ParseInt(score)

TeamScore(team) ==
    [name |-> "Team Score", value |-> team.score, team |-> team.abbreviation]

\* lines 1226-1237: the higher score first, the home team first on a tie; a
\* score that int() rejects leaves the map empty
ScoringLeaders(home_team, away_team, home_score_int, away_score_int) ==
    IF ~home_score_int.ok \/ ~away_score_int.ok THEN EmptyLeaders
    ELSE [n \in {"Team Scoring"} |->
            IF home_score_int.value >= away_score_int.value
            THEN <<TeamScore(home_team), TeamScore(away_team)>>
            ELSE <<TeamScore(away_team), TeamScore(home_team)>>]

\* lines 1212-1239
LeadersOfSides(home_team, away_team) ==
    IF /\ home_team.score \in { <<"0">>, <<>> }
       /\ away_team.score \in { <<"0">>, <<>> }
    THEN EmptyLeaders
    ELSE ScoringLeaders(home_team, away_team, ScoreInt(home_team.score),
                        ScoreInt(away_team.score))

\* _extract_leaders_from_header
extract_leaders_from_header(header) ==
    IF header.kind # "dict"
    THEN [exc |-> "AttributeError", leaders |-> EmptyLeaders]
    ELSE IF header.competitions_empty
    THEN [exc |-> "IndexError", leaders |-> EmptyLeaders]
    ELSE IF Len(header.competitors) < 2
    THEN [exc |-> "none", leaders |-> EmptyLeaders]
    ELSE [exc |-> "none",
          leaders |-> LeadersOfSides(SideOf(header.competitors, "home"),
                                     SideOf(header.competitors, "away"))]

\* the strategies of _parse_game_leaders in the order of lines 719-748
StrategyOrder == <<"main_array", "boxscore", "nested", "header">>

\* the condition that guards each strategy (lines 719, 727, 735, 743)
StrategyApplies(data, name) ==
    CASE name = "main_array" ->
            data.leaders.kind = "list" /\ data.leaders.items # <<>>
      [] name = "boxscore" ->
            data.boxscore.kind = "dict" /\ data.boxscore.players_key
      [] name = "nested" -> data.boxscore.kind # "absent"
      [] name = "header" -> data.header.kind # "absent"

\* 'players' in data['boxscore'] raises TypeError when the section is null
GuardRaises(data, name) ==
    name = "boxscore" /\ data.boxscore.kind = "null"

RunStrategy(data, sport_arg, name) ==
    CASE name = "main_array" -> parse_leaders_from_main_array(data.leaders)
      [] name = "boxscore" -> extract_leaders_from_boxscore(data.boxscore, sport_arg)
      [] name = "nested" -> extract_leaders_from_boxscore_nested(data.boxscore)
      [] name = "header" -> extract_leaders_from_header(data.header)

\* one strategy that was called with result r, before the rest of the chain:
\* a non-empty map ends the chain (lines 722-724, 730-732, 738-740, 746-748)
ChainStep(name, r, rest) ==
    IF r.leaders # EmptyLeaders
    THEN [leaders |-> r.leaders, exc |-> "none", tried |-> <<name>>,
          caught |-> {}]
    ELSE [rest EXCEPT !.tried = <<name>> \o @,
                      !.caught = IF r.exc = "none" THEN @ ELSE @ \cup {name}]

\* the chain: the first strategy that applies and returns a non-empty map
\* ends it; an exception raised by a guard ends it in the handler of line
\* 753.  tried lists the strategies that were called, caught the exceptions
\* they swallowed themselves.
StrategyChain(data, sport_arg, order) ==
    LET walk[k \in 1..(Len(order) + 1)] ==
            IF k > Len(order)
            THEN [leaders |-> EmptyLeaders, exc |-> "none", tried |-> <<>>,
                  caught |-> {}]
            ELSE IF GuardRaises(data, order[k])
            THEN [leaders |-> EmptyLeaders, exc |-> "TypeError", tried |-> <<>>,
                  caught |-> {}]
            ELSE IF ~StrategyApplies(data, order[k]) THEN walk[k + 1]
            ELSE ChainStep(order[k], RunStrategy(data, sport_arg, order[k]),
                           walk[k + 1])
    IN  walk[1]

\* the MLB branch (lines 700-715): the box-score strategy or nothing
MlbOrder == <<"boxscore">>

parse_game_leaders_without_mlb_branch(data, sport_arg) ==
    StrategyChain(data, sport_arg, StrategyOrder)

parse_game_leaders_header_first(data, sport_arg) ==
    StrategyChain(data, sport_arg,
                  IF StrLower(sport_arg) = <<"m","l","b">> THEN MlbOrder
                  ELSE <<"header", "main_array", "boxscore", "nested">>)

\* _parse_game_leaders
parse_game_leaders(data, sport_arg) ==
    StrategyChain(data, sport_arg,
                  IF StrLower(sport_arg) = <<"m","l","b">> THEN MlbOrder
                  ELSE StrategyOrder)

(***************************************************************************)
(* SpecLeaders: _parse_game_leaders applied to summary payloads built from *)
(* the forms each section may take.                                        *)
(***************************************************************************)
Athlete(name, stats) == [displayName |-> name, stats |-> stats]

Group(name, athletes) == [kind |-> "dict", name |-> name, athletes |-> athletes]

TeamPlayers(abbreviation, groups) ==
    [kind |-> "dict", abbreviation |-> abbreviation,
     statistics_null |-> FALSE, statistics |-> groups]

Batting == <<"B","a","t","t","i","n","g">>

\* two teams of two athletes whose first stats are positive numbers
PlayersWithStats ==
    << TeamPlayers("NYY", << Group(Batting,
            << Athlete("Judge", << <<"2">>, <<"1">> >>),
               Athlete("Soto", << <<"3">>, <<"0">> >>) >>) >>),
       TeamPlayers("BOS", << Group(Batting,
            << Athlete("Devers", << <<"1">>, <<"4">> >>),
               Athlete("Duran", << <<"2", ".", "5">>, <<"-","-">> >>) >>) >>) >>

\* athletes whose stats hold nothing a category accepts
PlayersWithoutStats ==
    << TeamPlayers("NYY", << Group(Batting,
            << Athlete("Judge", << <<"0">>, <<"-","-">> >>) >>) >>) >>

\* the first team entry is not a dict
PlayersNotDict ==
    << [kind |-> "other"],
       TeamPlayers("BOS", << Group(Batting,
            << Athlete("Devers", << <<"1">>, <<"4">> >>) >>) >>) >>

LeaderPlayer(name, value) == [displayName |-> name, displayValue |-> value]

LeaderCategory(name, players) == [displayName |-> name, leaders |-> players]

LeaderTeam(abbreviation, categories) ==
    [kind |-> "dict", team |-> [kind |-> "dict", abbreviation |-> abbreviation],
     leaders_key |-> TRUE, leaders |-> categories]

List(items) == [kind |-> "list", items |-> items]

Absent == [kind |-> "absent"]

Null == [kind |-> "null"]

OneLeader ==
    List(<< LeaderTeam("LAL",
              << LeaderCategory("Points", << LeaderPlayer("James", <<"3","0">>) >>) >>) >>)

\* two teams, each with two ranked players in the same category
TwoTeamsTwoRanked ==
    List(<< LeaderTeam("LAL",
              << LeaderCategory("Points",
                    << LeaderPlayer("James", <<"3","0">>),
                       LeaderPlayer("Davis", <<"2","2">>) >>) >>),
            LeaderTeam("BOS",
              << LeaderCategory("Points",
                    << LeaderPlayer("Tatum", <<"2","8">>),
                       LeaderPlayer("Brown", <<"2","1">>) >>) >>) >>)

ZeroLeaders ==
    List(<< LeaderTeam("LAL",
              << LeaderCategory("Points", << LeaderPlayer("James", <<"0">>) >>) >>) >>)

\* a team entry whose "team" is null
NullTeamLeaders ==
    List(<< [kind |-> "dict", team |-> Null, leaders_key |-> TRUE,
             leaders |-> << LeaderCategory("Points",
                               << LeaderPlayer("James", <<"3","0">>) >>) >>] >>)

LeadersSections ==
    {Absent, Null, List(<<>>), OneLeader, TwoTeamsTwoRanked, ZeroLeaders,
     NullTeamLeaders}

Boxscore(players_key, players, leaders_key, leaders, teams) ==
    [kind |-> "dict", players_key |-> players_key, players |-> players,
     leaders_key |-> leaders_key, leaders |-> leaders, teams |-> teams]

BoxscoreSections ==
    {Absent, Null,
     Boxscore(FALSE, <<>>, FALSE, Absent, <<>>),
     Boxscore(TRUE, <<>>, FALSE, Absent, <<>>),
     Boxscore(TRUE, PlayersWithStats, FALSE, Absent, <<>>),
     Boxscore(TRUE, PlayersWithoutStats, FALSE, Absent, <<>>),
     Boxscore(TRUE, PlayersNotDict, FALSE, Absent, <<>>),
     Boxscore(TRUE, PlayersWithoutStats, TRUE, OneLeader, <<>>),
     Boxscore(FALSE, <<>>, TRUE, OneLeader, <<>>),
     Boxscore(FALSE, <<>>, FALSE, Absent, OneLeader.items),
     Boxscore(FALSE, <<>>, FALSE, Absent, <<Null>>)}

Competitor(homeAway, score, abbreviation) ==
    [homeAway |-> homeAway, score |-> score, abbreviation |-> abbreviation]

Header(competitions_empty, home_score, away_score) ==
    [kind |-> "dict", competitions_empty |-> competitions_empty,
     competitors |-> << Competitor("home", home_score, "NYY"),
                        Competitor("away", away_score, "BOS") >>]

HeaderSections ==
    {Absent,
     Header(FALSE, <<"5">>, <<"3">>),
     Header(FALSE, <<"0">>, <<"0">>),
     Header(FALSE, <<"7",".","5">>, <<"3">>),
     Header(TRUE, <<"5">>, <<"3">>)}

LeaderSports ==
    { <<"m","l","b">>, <<"M","L","B">>, <<"N","B","A">>,
      <<"L","a"," ","L","i","g","a">>, <<"c","r","i","c","k","e","t">> }

SummaryData(leaders, boxscore, header) ==
    [kind |-> "dict", leaders |-> leaders, boxscore |-> boxscore,
     header |-> header]

InitLeaders ==
    /\ pc = "leaders"
    /\ op = "leaders"
    /\ sport \in LeaderSports
    /\ team_name = <<>>
    /\ now = 0
    /\ day_idx = 1
    /\ team_games = <<>>
    /\ result = NoResult
    /\ primary_game = 0
    /\ next_game = 0
    /\ api_cache = EmptyCache
    /\ requested = {}
    /\ game_info = 0
    /\ day_data \in { SummaryData(l, b, h) :
                        l \in LeadersSections, b \in BoxscoreSections,
                        h \in HeaderSections }

ParseLeadersStep ==
    /\ pc = "leaders"
    /\ result' = [kind |-> "leaders"] @@ parse_game_leaders(day_data, sport)
    /\ pc' = "parsed"
    /\ UNCHANGED <<op, sport, team_name, now, day_idx, team_games,
                   primary_game, next_game, api_cache, game_info, day_data,
                   requested>>

NextLeaders == ParseLeadersStep

SpecLeaders == InitLeaders /\ [][NextLeaders]_vars

\* vocabulary of the leaders claims
Parsed == pc = "parsed"
IsMlb == StrLower(sport) = <<"m","l","b">>
WasTried(name) == \E k \in 1..Len(result.tried) : result.tried[k] = name
Produces(name) ==
    /\ ~GuardRaises(day_data, name)
    /\ StrategyApplies(day_data, name)
    /\ RunStrategy(day_data, sport, name).leaders # EmptyLeaders
OrderIndex(name) == CHOOSE k \in 1..Len(StrategyOrder) : StrategyOrder[k] = name
StrategyNames == {StrategyOrder[k] : k \in 1..Len(StrategyOrder)}

\* C11: for sport MLB (in any letter case) only the box-score strategy is
\* ever called, and when it does not apply or yields no category the result
\* is the empty map, whatever the leaders array, the nested box-score
\* leaders and the header hold
C11_MlbBoxscoreOnly ==
    (Parsed /\ IsMlb) =>
        /\ \A name \in StrategyNames \ {"boxscore"} : ~WasTried(name)
        /\ ~Produces("boxscore") => result.leaders = EmptyLeaders
        /\ Produces("boxscore") =>
              result.leaders = RunStrategy(day_data, sport, "boxscore").leaders

C11_Witness ==
    /\ Parsed
    /\ IsMlb
    /\ day_data.leaders = TwoTeamsTwoRanked
    /\ day_data.boxscore = Boxscore(TRUE, PlayersWithoutStats, TRUE, OneLeader, <<>>)
    /\ day_data.header = Header(FALSE, <<"5">>, <<"3">>)
    /\ Produces("main_array") /\ Produces("nested") /\ Produces("header")
    /\ result.tried = <<"boxscore">>
    /\ result.leaders = EmptyLeaders

C13_AtMostThree ==
    Parsed => \A n \in DOMAIN result.leaders : Len(result.leaders[n]) <= 3

\* C14: for a sport other than MLB an exception raised while a strategy
\* inspects the payload counts as that strategy yielding nothing and the
\* later strategies are still tried: the result is empty only when no
\* strategy whose section is present yields a category
C14_ChainSurvivesExceptions ==
    (Parsed /\ ~IsMlb /\ result.leaders = EmptyLeaders) =>
        \A name \in StrategyNames :
            ~(/\ StrategyApplies(day_data, name)
              /\ RunStrategy(day_data, sport, name).leaders # EmptyLeaders)

(***************************************************************************)
(* SpecMatch: _team_name_matches applied to pairs of names: every nickname *)
(* of the dictionary against its canonical name, in three spellings each   *)
(* and in both argument orders, and every pair of a set of general names.  *)
(***************************************************************************)
UpperChar(c) ==
    CASE c = "a" -> "A" [] c = "b" -> "B" [] c = "c" -> "C" [] c = "d" -> "D"
      [] c = "e" -> "E" [] c = "f" -> "F" [] c = "g" -> "G" [] c = "h" -> "H"
      [] c = "i" -> "I" [] c = "j" -> "J" [] c = "k" -> "K" [] c = "l" -> "L"
      [] c = "m" -> "M" [] c = "n" -> "N" [] c = "o" -> "O" [] c = "p" -> "P"
      [] c = "q" -> "Q" [] c = "r" -> "R" [] c = "s" -> "S" [] c = "t" -> "T"
      [] c = "u" -> "U" [] c = "v" -> "V" [] c = "w" -> "W" [] c = "x" -> "X"
      [] c = "y" -> "Y" [] c = "z" -> "Z" [] c = "é" -> "É"
      [] OTHER -> c

\* str.upper()
StrUpper(s) == [i \in 1..Len(s) |-> UpperChar(s[i])]

\* a name as the dictionary spells it, in capitals, and in capitals
\* between whitespace
Spellings(s) == {s, StrUpper(s), <<" ">> \o StrUpper(s) \o <<"\t", " ">>}

NicknamePairs ==
    UNION { Spellings(p[1]) \X Spellings(p[2]) : p \in team_mappings }

GeneralNames ==
    { <<>>, <<"T","h","e">>, <<"C","i","t","y">>,
      <<"o","f"," ","t","h","e">>, <<"t","h","e"," ","c","i","t","y">>,
      <<"F","C"," ","U","n","i","t","e","d">>,
      <<"M","a","n","c","h","e","s","t","e","r"," ","U","n","i","t","e","d">>,
      <<"M","a","n","c","h","e","s","t","e","r"," ","C","i","t","y">>,
      <<"M","a","n">>, <<"Y","a","n","k","e","e","s">>,
      <<"N","e","w"," ","Y","o","r","k"," ","Y","a","n","k","e","e","s">>,
      <<"N","e","w"," ","Y","o","r","k"," ","M","e","t","s">>,
      <<"R","e","d"," ","S","o","x">>,
      <<"B","o","s","t","o","n"," ","R","e","d"," ","S","o","x">>,
      <<"Y","o","r","k">>, <<"A","t","h","l","e","t","i","c">>,
      <<"A","t","h","l","e","t","i","c","s">>, <<"L","a","k","e","r","s">> }

MatchPairs ==
    NicknamePairs \cup { <<q[2], q[1]>> : q \in NicknamePairs }
                  \cup (GeneralNames \X GeneralNames)

InitMatch ==
    /\ pc = "match"
    /\ op = "match"
    /\ sport = <<>>
    /\ \E q \in MatchPairs : team_name = q[1] /\ game_info = q[2]
    /\ now = 0
    /\ day_idx = 1
    /\ team_games = <<>>
    /\ result = NoResult
    /\ primary_game = 0
    /\ next_game = 0
    /\ api_cache = EmptyCache
    /\ requested = {}
    /\ day_data = NoData

\* _team_name_matches(search_name = team_name, api_name = game_info)
MatchStep ==
    /\ pc = "match"
    /\ result' = [kind |-> "match", matched |-> team_name_matches(team_name, game_info)]
    /\ pc' = "matched"
    /\ UNCHANGED <<op, sport, team_name, now, day_idx, team_games,
                   primary_game, next_game, api_cache, game_info, day_data,
                   requested>>

NextMatch == MatchStep

SpecMatch == InitMatch /\ [][NextMatch]_vars

\* vocabulary of the matcher claims
Matched == pc = "matched"
SearchNormalized == normalize_team_name(team_name)
ApiNormalized == normalize_team_name(game_info)
SearchWordsFiltered == StrSplitSet(SearchNormalized) \ common_words
ApiWordsFiltered == StrSplitSet(ApiNormalized) \ common_words

\* C15: the matcher returns true or false for every pair of names, and it
\* returns false when the normalized names differ, neither contains the
\* other, and one of the two word sets is empty once the stop words are
\* removed
C15_BooleanAndEmptyWords ==
    Matched =>
        /\ result.matched \in BOOLEAN
        /\ ( /\ SearchNormalized # ApiNormalized
             /\ ~StrContains(ApiNormalized, SearchNormalized)
             /\ ~StrContains(SearchNormalized, ApiNormalized)
             /\ (SearchWordsFiltered = {} \/ ApiWordsFiltered = {}) )
           => result.matched = FALSE

C15_Witness ==
    /\ Matched
    /\ team_name = <<"o","f"," ","t","h","e">>
    /\ game_info = <<"t","h","e"," ","c","i","t","y">>
    /\ SearchWordsFiltered = {}
    /\ ~StrContains(ApiNormalized, SearchNormalized)
    /\ ~StrContains(SearchNormalized, ApiNormalized)
    /\ result.matched = FALSE

\* C16: the matcher is symmetric: matches(a, b) = matches(b, a)
C16_Symmetric ==
    Matched => result.matched = team_name_matches(game_info, team_name)

C16_Witness ==
    /\ Matched
    /\ team_name = <<"M","a","n","c","h","e","s","t","e","r"," ","C","i","t","y">>
    /\ game_info = <<"M","a","n">>
    /\ ~StrContains(ApiNormalized, SearchNormalized)
    /\ StrContains(SearchNormalized, ApiNormalized)
    /\ (SearchWordsFiltered \cap ApiWordsFiltered) = {}
    /\ result.matched = TRUE

\* C17: a nickname of the dictionary matches the canonical name it maps
\* to, whatever the letter case and the surrounding whitespace of the two
C17_NicknameMatchesCanonical ==
    Matched =>
        \A p \in team_mappings :
            ( /\ StrStrip(StrLower(team_name)) = p[1]
              /\ StrStrip(StrLower(game_info)) = p[2] )
            => result.matched = TRUE

C17_Witness ==
    /\ Matched
    /\ team_name = <<" ","A","T","L","E","T","I","C","O","\t"," ">>
    /\ game_info = <<"A","T","L","É","T","I","C","O"," ","M","A","D","R","I","D">>
    /\ SearchNormalized # StrStrip(StrLower(team_name))
    /\ result.matched = TRUE

teams_table(key) ==
    CASE key = <<"n","b","a">> ->
          << "Atlanta Hawks", "Boston Celtics", "Brooklyn Nets",
             "Charlotte Hornets", "Chicago Bulls", "Cleveland Cavaliers",
             "Dallas Mavericks", "Denver Nuggets", "Detroit Pistons",
             "Golden State Warriors", "Houston Rockets", "Indiana Pacers",
             "LA Clippers", "Los Angeles Lakers", "Memphis Grizzlies",
             "Miami Heat", "Milwaukee Bucks", "Minnesota Timberwolves",
             "New Orleans Pelicans", "New York Knicks",
             "Oklahoma City Thunder", "Orlando Magic",
             "Philadelphia 76ers", "Phoenix Suns",
             "Portland Trail Blazers", "Sacramento Kings",
             "San Antonio Spurs", "Toronto Raptors", "Utah Jazz",
             "Washington Wizards" >>
      [] key = <<"w","n","b","a">> ->
          << "Atlanta Dream", "Chicago Sky", "Connecticut Sun",
             "Dallas Wings", "Indiana Fever", "Las Vegas Aces",
             "Los Angeles Sparks", "Minnesota Lynx", "New York Liberty",
             "Phoenix Mercury", "Seattle Storm", "Washington Mystics" >>
      [] key = <<"n","f","l">> ->
          << "Arizona Cardinals", "Atlanta Falcons", "Baltimore Ravens",
             "Buffalo Bills", "Carolina Panthers", "Chicago Bears",
             "Cincinnati Bengals", "Cleveland Browns", "Dallas Cowboys",
             "Denver Broncos", "Detroit Lions", "Green Bay Packers",
             "Houston Texans", "Indianapolis Colts",
             "Jacksonville Jaguars", "Kansas City Chiefs",
             "Las Vegas Raiders", "Los Angeles Chargers",
             "Los Angeles Rams", "Miami Dolphins", "Minnesota Vikings",
             "New England Patriots", "New Orleans Saints",
             "New York Giants", "New York Jets", "Philadelphia Eagles",
             "Pittsburgh Steelers", "San Francisco 49ers",
             "Seattle Seahawks", "Tampa Bay Buccaneers",
             "Tennessee Titans", "Washington Commanders" >>
      [] key = <<"m","l","s">> ->
          << "Atlanta United FC", "Austin FC", "CF Montréal",
             "Charlotte FC", "Chicago Fire FC", "Colorado Rapids",
             "Columbus Crew", "D.C. United", "FC Cincinnati", "FC Dallas",
             "Houston Dynamo FC", "Inter Miami CF", "LA Galaxy",
             "Los Angeles FC", "Minnesota United FC", "Nashville SC",
             "New England Revolution", "New York City FC",
             "New York Red Bulls", "Orlando City SC",
             "Philadelphia Union", "Portland Timbers", "Real Salt Lake",
             "San Jose Earthquakes", "Seattle Sounders FC",
             "Sporting Kansas City", "St. Louis City SC", "Toronto FC",
             "Vancouver Whitecaps FC" >>
      [] key = <<"p","r","e","m","i","e","r"," ","l","e","a","g","u","e">> ->
          << "Arsenal", "Aston Villa", "Bournemouth", "Brentford",
             "Brighton & Hove Albion", "Chelsea", "Crystal Palace",
             "Everton", "Fulham", "Ipswich Town", "Leicester City",
             "Liverpool", "Manchester City", "Manchester United",
             "Newcastle United", "Nottingham Forest", "Southampton",
             "Tottenham Hotspur", "West Ham United",
             "Wolverhampton Wanderers" >>
      [] key = <<"l","a"," ","l","i","g","a">> ->
          << "Athletic Bilbao", "Atlético Madrid", "Barcelona",
             "Celta Vigo", "Deportivo Alavés", "Espanyol", "Getafe",
             "Girona", "Las Palmas", "Leganés", "Mallorca", "Osasuna",
             "Rayo Vallecano", "Real Betis", "Real Madrid",
             "Real Sociedad", "Sevilla", "Valencia", "Valladolid",
             "Villarreal" >>
      [] key = <<"m","l","b">> ->
          << "Arizona Diamondbacks", "Atlanta Braves",
             "Baltimore Orioles", "Boston Red Sox", "Chicago Cubs",
             "Chicago White Sox", "Cincinnati Reds",
             "Cleveland Guardians", "Colorado Rockies", "Detroit Tigers",
             "Houston Astros", "Kansas City Royals", "Los Angeles Angels",
             "Los Angeles Dodgers", "Miami Marlins", "Milwaukee Brewers",
             "Minnesota Twins", "New York Mets", "New York Yankees",
             "Oakland Athletics", "Philadelphia Phillies",
             "Pittsburgh Pirates", "San Diego Padres",
             "San Francisco Giants", "Seattle Mariners",
             "St. Louis Cardinals", "Tampa Bay Rays", "Texas Rangers",
             "Toronto Blue Jays", "Washington Nationals" >>
      [] key = <<"n","h","l">> ->
          << "Anaheim Ducks", "Arizona Coyotes", "Boston Bruins",
             "Buffalo Sabres", "Calgary Flames", "Carolina Hurricanes",
             "Chicago Blackhawks", "Colorado Avalanche",
             "Columbus Blue Jackets", "Dallas Stars", "Detroit Red Wings",
             "Edmonton Oilers", "Florida Panthers", "Los Angeles Kings",
             "Minnesota Wild", "Montréal Canadiens",
             "Nashville Predators", "New Jersey Devils",
             "New York Islanders", "New York Rangers", "Ottawa Senators",
             "Philadelphia Flyers", "Pittsburgh Penguins",
             "San Jose Sharks", "Seattle Kraken", "St. Louis Blues",
             "Tampa Bay Lightning", "Toronto Maple Leafs",
             "Utah Hockey Club", "Vancouver Canucks",
             "Vegas Golden Knights", "Washington Capitals",
             "Winnipeg Jets" >>
      [] OTHER -> <<>>

get_teams_by_sport_case_sensitive(sport_arg) == teams_table(sport_arg)

\* line 485: teams.get(sport.lower(), [])
get_teams_by_sport(sport_arg) == teams_table(StrLower(sport_arg))

TeamsKeys ==
    { <<"n","b","a">>, <<"w","n","b","a">>, <<"n","f","l">>, <<"m","l","s">>,
      <<"p","r","e","m","i","e","r"," ","l","e","a","g","u","e">>,
      <<"l","a"," ","l","i","g","a">>, <<"m","l","b">>, <<"n","h","l">> }

TeamsSportInputs ==
    TeamsKeys \cup { StrUpper(k) : k \in TeamsKeys }
              \cup { <<"M","l","b">>, <<"m","l","b"," ">>,
                     <<"c","r","i","c","k","e","t">>, <<>> }

MaxCalls == 2

InitTeams ==
    /\ pc = "teams_idle"
    /\ op = "teams"
    /\ sport = <<>>
    /\ team_name = <<>>
    /\ now = 0
    /\ day_idx = 0
    /\ team_games = <<>>
    /\ result = NoResult
    /\ primary_game = 0
    /\ next_game = 0
    /\ api_cache = EmptyCache
    /\ requested = {}
    /\ game_info = 0
    /\ day_data = NoData

\* one call: day_idx counts the calls made, result is what the call
\* returned, team_games the list object the caller now holds, day_data
\* the argument and the return of the call before
GetTeamsBySport ==
    /\ pc \in {"teams_idle", "teams_returned", "teams_edited"}
    /\ day_idx < MaxCalls
    /\ \E s \in TeamsSportInputs :
        /\ sport' = s
        /\ result' = [kind |-> "teams", teams |-> get_teams_by_sport(s)]
        /\ team_games' = get_teams_by_sport(s)
    /\ day_data' = IF day_idx = 0 THEN NoData
                   ELSE [kind |-> "teams", sport |-> sport, teams |-> result.teams]
    /\ day_idx' = day_idx + 1
    /\ pc' = "teams_returned"
    /\ UNCHANGED <<op, team_name, now, primary_game, next_game, api_cache,
                   game_info, requested>>

\* the caller removes the first team from the list it was handed; the
\* dict of get_teams_by_sport is built anew by every call (line 414)
CallerEditsList ==
    /\ pc = "teams_returned"
    /\ team_games # <<>>
    /\ team_games' = Tail(team_games)
    /\ pc' = "teams_edited"
    /\ UNCHANGED <<op, sport, team_name, now, day_idx, result, primary_game,
                   next_game, api_cache, game_info, day_data, requested>>

NextTeams == GetTeamsBySport \/ CallerEditsList

SpecTeams == InitTeams /\ [][NextTeams]_vars

\* C19: a call returns the roster of the lower-cased sport, unchanged and
\* in the order of the table; the MLB roster has 30 teams; and two calls
\* whose sports differ only in letter case return the same list, whatever
\* the caller did to the list of the first call
C19_FixedRoster ==
    (op = "teams" /\ day_idx >= 1) =>
        /\ \A k \in TeamsKeys :
              StrLower(sport) = k => result.teams = teams_table(k)
        /\ StrLower(sport) = <<"m","l","b">> => Len(result.teams) = 30
        /\ (day_idx >= 2 /\ StrLower(day_data.sport) = StrLower(sport))
              => result.teams = day_data.teams

C19_Witness ==
    /\ op = "teams"
    /\ day_idx = 2
    /\ pc = "teams_returned"
    /\ day_data.sport = <<"m","l","b">>
    /\ sport = <<"M","L","B">>
    /\ Len(result.teams) = 30
    /\ result.teams[1] = "Arizona Diamondbacks"
    /\ result.teams[30] = "Washington Nationals"
    /\ result.teams = day_data.teams

(***************************************************************************)
(* SpecBox: _extract_leaders_from_boxscore applied to one team with one    *)
(* batting group of two athletes, for every pair of stats lists of up to   *)
(* MaxStats values.                                                        *)
(***************************************************************************)
MaxStats == 2

StatValues ==
    { <<"0">>, <<"0",".","0">>, <<"5","-","1","0">>, <<"2">>, <<"7">> }

StatLists == UNION { [1..n -> StatValues] : n \in 1..MaxStats }

BoxSports ==
    { <<"m","l","b">>, <<"N","B","A">>, <<"L","a"," ","L","i","g","a">>,
      <<"c","r","i","c","k","e","t">> }

InitBox ==
    /\ pc = "box"
    /\ op = "box"
    /\ sport \in BoxSports
    /\ team_name = <<>>
    /\ now = 0
    /\ day_idx = 1
    /\ team_games = <<>>
    /\ result = NoResult
    /\ primary_game = 0
    /\ next_game = 0
    /\ api_cache = EmptyCache
    /\ requested = {}
    /\ game_info = 0
    /\ \E s1 \in StatLists, s2 \in StatLists :
          day_data = Boxscore(TRUE,
                        << TeamPlayers("NYY", << Group(Batting,
                              << Athlete("Judge", s1), Athlete("Soto", s2) >>) >>) >>,
                        FALSE, Absent, <<>>)

BoxStep ==
    /\ pc = "box"
    /\ result' = [kind |-> "box"] @@ extract_leaders_from_boxscore(day_data, sport)
    /\ pc' = "box_done"
    /\ UNCHANGED <<op, sport, team_name, now, day_idx, team_games,
                   primary_game, next_game, api_cache, game_info, day_data,
                   requested>>

NextBox == BoxStep

SpecBox == InitBox /\ [][NextBox]_vars

\* the categories the box-score strategy fills for a batting group
BoxCategories ==
    IF StrLower(sport) = <<"m","l","b">>
    THEN SelectSeq(mlb_position_categories, LAMBDA c : c.groups = batting_groups)
    ELSE categories_of_sport(StrLower(sport))

\* C20: for each category and each athlete, the value used is the one at
\* the first candidate index that holds a parseable positive number: the
\* athlete is listed under the category with that value
C20_FirstPositiveIndex ==
    pc = "box_done" =>
        \A k \in 1..Len(BoxCategories) :
            \A athlete \in 1..Len(day_data.players[1].statistics[1].athletes) :
                LET c == BoxCategories[k]
                    a == day_data.players[1].statistics[1].athletes[athlete]
                    v == FirstPositiveValue(a.stats, c.indices)
                IN  v # <<>> =>
                       /\ c.name \in DOMAIN result.leaders
                       /\ \E e \in 1..Len(result.leaders[c.name]) :
                             /\ result.leaders[c.name][e].name = a.displayName
                             /\ result.leaders[c.name][e].value = v

(***************************************************************************)
(* SpecTop: _extract_leaders_from_boxscore applied to two teams of         *)
(* TeamSize athletes with one stat each, so that a category collects more  *)
(* athletes than it may return.                                            *)
(***************************************************************************)
TeamSize == 2

TopStatValues == { <<"0">>, <<"1">>, <<"2">>, <<"2",".","5">>, <<"1","0">> }

TopSports == { <<"m","l","b">>, <<"N","B","A">> }

HomeNames == SubSeq(<<"Judge", "Soto", "Volpe", "Rizzo">>, 1, TeamSize)

AwayNames == SubSeq(<<"Devers", "Duran", "Casas", "Story">>, 1, TeamSize)

TeamOf(abbreviation, names, stats) ==
    TeamPlayers(abbreviation,
        << Group(Batting, [a \in 1..Len(names) |->
                              Athlete(names[a], <<stats[a]>>)]) >>)

InitTop ==
    /\ pc = "top"
    /\ op = "top"
    /\ sport \in TopSports
    /\ team_name = <<>>
    /\ now = 0
    /\ day_idx = 1
    /\ team_games = <<>>
    /\ result = NoResult
    /\ primary_game = 0
    /\ next_game = 0
    /\ api_cache = EmptyCache
    /\ requested = {}
    /\ game_info = 0
    /\ \E home \in [1..TeamSize -> TopStatValues],
          away \in [1..TeamSize -> TopStatValues] :
          day_data = Boxscore(TRUE,
                        << TeamOf("NYY", HomeNames, home),
                           TeamOf("BOS", AwayNames, away) >>,
                        FALSE, Absent, <<>>)

TopStep ==
    /\ pc = "top"
    /\ result' = [kind |-> "top"] @@ extract_leaders_from_boxscore(day_data, sport)
    /\ pc' = "top_done"
    /\ UNCHANGED <<op, sport, team_name, now, day_idx, team_games,
                   primary_game, next_game, api_cache, game_info, day_data,
                   requested>>

NextTop == TopStep

SpecTop == InitTop /\ [][NextTop]_vars

\* vocabulary of C21: the athletes of both teams with their first stat, and
\* the number each stat stands for, in tenths
TopAthletes ==
    UNION { { [name |-> day_data.players[t].statistics[1].athletes[a].displayName,
               value |-> day_data.players[t].statistics[1].athletes[a].stats[1],
               team |-> day_data.players[t].abbreviation] :
              a \in 1..Len(day_data.players[t].statistics[1].athletes) } :
            t \in 1..Len(day_data.players) }

Tenths(v) ==
    CASE v = <<"0">> -> 0 [] v = <<"1">> -> 10 [] v = <<"2">> -> 20
      [] v = <<"2",".","5">> -> 25 [] v = <<"1","0">> -> 100

TopCollected == {e \in TopAthletes : Tenths(e.value) > 0}

TopDone == pc = "top_done"

\* C21: a category of the box-score strategy holds the 3 collected athletes
\* of both teams with the largest numeric values (all of them when fewer
\* were collected), in descending numeric order, each entry made of name,
\* value and team only
C21_TopThreeDescending ==
    TopDone =>
        /\ (DOMAIN result.leaders = {}) = (TopCollected = {})
        /\ \A n \in DOMAIN result.leaders :
            LET list == result.leaders[n]
                listed == {list[k] : k \in 1..Len(list)}
            IN  /\ Len(list) = (IF Cardinality(TopCollected) < 3
                                THEN Cardinality(TopCollected) ELSE 3)
                /\ Cardinality(listed) = Len(list)
                /\ listed \subseteq TopCollected
                /\ \A k \in 1..Len(list) : DOMAIN list[k] = {"name", "value", "team"}
                /\ \A k \in 1..(Len(list) - 1) :
                        Tenths(list[k].value) >= Tenths(list[k + 1].value)
                /\ \A e \in TopCollected \ listed :
                        \A k \in 1..Len(list) :
                            Tenths(list[k].value) >= Tenths(e.value)

\* four athletes were collected, the one left out has the smallest value,
\* and "10" is ranked above "2.5"
C21_Witness ==
    /\ TopDone
    /\ Cardinality(TopCollected) > 3
    /\ \E n \in DOMAIN result.leaders :
          /\ Len(result.leaders[n]) = 3
          /\ result.leaders[n][1].value = <<"1","0">>
          /\ result.leaders[n][2].value = <<"2",".","5">>

(***************************************************************************)
(* SpecMlb: the MLB extractor applied to one team with two groups of one   *)
(* athlete each, for group names that match the batting filter, the        *)
(* pitching filter or neither.                                             *)
(***************************************************************************)
MlbGroupNames ==
    { <<"B","a","t","t","i","n","g">>,
      <<"T","e","a","m"," ","O","f","f","e","n","s","e">>,
      <<"p","i","t","c","h","e","r","s">>,
      <<"F","i","e","l","d","i","n","g">> }

MlbStatLists ==
    { << <<"0">> >>, << <<"2">> >>, << <<"0">>, <<"7">> >>,
      << <<"5","-","1","0">>, <<"2">> >>, << <<"-","-">>, <<"0",".","0">> >> }

MlbSports == { <<"m","l","b">>, <<"M","L","B">> }

InitMlb ==
    /\ pc = "mlb"
    /\ op = "mlb"
    /\ sport \in MlbSports
    /\ team_name = <<>>
    /\ now = 0
    /\ day_idx = 1
    /\ team_games = <<>>
    /\ result = NoResult
    /\ primary_game = 0
    /\ next_game = 0
    /\ api_cache = EmptyCache
    /\ requested = {}
    /\ game_info = 0
    /\ \E g1 \in MlbGroupNames, g2 \in MlbGroupNames,
          s1 \in MlbStatLists, s2 \in MlbStatLists :
          day_data = Boxscore(TRUE,
                        << TeamPlayers("NYY",
                              << Group(g1, << Athlete("Judge", s1) >>),
                                 Group(g2, << Athlete("Cole", s2) >>) >>) >>,
                        FALSE, Absent, <<>>)

MlbStep ==
    /\ pc = "mlb"
    /\ result' = [kind |-> "mlb"] @@ extract_leaders_from_boxscore(day_data, sport)
    /\ pc' = "mlb_done"
    /\ UNCHANGED <<op, sport, team_name, now, day_idx, team_games,
                   primary_game, next_game, api_cache, game_info, day_data,
                   requested>>

NextMlb == MlbStep

SpecMlb == InitMlb /\ [][NextMlb]_vars

\* vocabulary of C22
MlbDone == pc = "mlb_done"

NamedCategories ==
    {"Hits", "RBIs", "Home Runs", "Runs Scored", "Strikeouts (Pitching)",
     "Innings Pitched"}

UnfilteredCategories ==
    {"Performance Stat 1", "Performance Stat 2", "Performance Stat 3",
     "Performance Stat 4"}

IsBattingGroup(name) ==
    name \in { <<"B","a","t","t","i","n","g">>,
               <<"T","e","a","m"," ","O","f","f","e","n","s","e">> }

IsPitchingGroup(name) == name = <<"p","i","t","c","h","e","r","s">>

\* the 0-based positions of a stats list that hold a positive number
PositivePositions(stats) ==
    {i \in 0..(Len(stats) - 1) : stats[i + 1] \in { <<"2">>, <<"7">> }}

\* some position-filtered category has a leader: a batting athlete with a
\* positive number among positions 0..7, or a pitching athlete with one
\* among positions 0..5
PositionLeaderExists ==
    \E g \in 1..Len(day_data.players[1].statistics) :
        LET group == day_data.players[1].statistics[g]
            positions == PositivePositions(group.athletes[1].stats)
        IN  \/ IsBattingGroup(group.name) /\ positions \cap (0..7) # {}
            \/ IsPitchingGroup(group.name) /\ positions \cap (0..5) # {}

\* C22: the unfiltered 'Performance Stat N' categories appear only when no
\* position-filtered category has a leader, named and unfiltered categories
\* are never mixed, and no category of the returned map is empty
C22_UnfilteredOnlyAsRetry ==
    MlbDone =>
        /\ \/ DOMAIN result.leaders \subseteq NamedCategories
           \/ DOMAIN result.leaders \subseteq UnfilteredCategories
        /\ DOMAIN result.leaders \cap UnfilteredCategories # {}
                => ~PositionLeaderExists
        /\ PositionLeaderExists
                => DOMAIN result.leaders \cap NamedCategories # {}
        /\ \A n \in DOMAIN result.leaders : result.leaders[n] # <<>>

\* the retry happened: neither group passes a position filter and the map
\* holds unfiltered categories only
C22_Witness ==
    /\ MlbDone
    /\ ~PositionLeaderExists
    /\ DOMAIN result.leaders # {}
    /\ DOMAIN result.leaders \subseteq UnfilteredCategories

(***************************************************************************)
(* SpecHeader: _extract_leaders_from_header applied to a header with a     *)
(* home and an away competitor, listed in either order, for every pair of  *)
(* score strings.                                                          *)
(***************************************************************************)
HeaderScores ==
    { <<>>, <<"0">>, <<"0","0">>, <<"3">>, <<"5">>, <<"1","0">>, <<"-","3">>,
      <<"7",".","5">> }

InitHeader ==
    /\ pc = "header"
    /\ op = "header"
    /\ sport = <<"N","B","A">>
    /\ team_name = <<>>
    /\ now = 0
    /\ day_idx = 1
    /\ team_games = <<>>
    /\ result = NoResult
    /\ primary_game = 0
    /\ next_game = 0
    /\ api_cache = EmptyCache
    /\ requested = {}
    /\ game_info = 0
    /\ \E home_score \in HeaderScores, away_score \in HeaderScores,
          home_listed_first \in BOOLEAN :
          day_data =
            [kind |-> "dict", competitions_empty |-> FALSE,
             competitors |->
                IF home_listed_first
                THEN << Competitor("home", home_score, "NYY"),
                        Competitor("away", away_score, "BOS") >>
                ELSE << Competitor("away", away_score, "BOS"),
                        Competitor("home", home_score, "NYY") >>]

HeaderStep ==
    /\ pc = "header"
    /\ result' = [kind |-> "header"] @@ extract_leaders_from_header(day_data)
    /\ pc' = "header_done"
    /\ UNCHANGED <<op, sport, team_name, now, day_idx, team_games,
                   primary_game, next_game, api_cache, game_info, day_data,
                   requested>>

NextHeader == HeaderStep

SpecHeader == InitHeader /\ [][NextHeader]_vars

\* vocabulary of C23: the score of a side and the integer a score string
\* stands for (an empty score counts as 0; IsInteger tells what int() accepts)
HeaderDone == pc = "header_done"

ScoreOfSide(which) ==
    LET k == CHOOSE i \in 1..Len(day_data.competitors) :
                day_data.competitors[i].homeAway = which
    IN  day_data.competitors[k].score

IsInteger(score) ==
    score \in {<<"0">>, <<"0","0">>, <<"3">>, <<"5">>, <<"1","0">>, <<"-","3">>}

ScoreNumber(score) ==
    CASE score = <<>> -> 0 [] score = <<"0">> -> 0 [] score = <<"0","0">> -> 0
      [] score = <<"3">> -> 3 [] score = <<"5">> -> 5
      [] score = <<"1","0">> -> 10 [] score = <<"-","3">> -> -3
      [] OTHER -> 0

IsNonZeroInteger(score) == IsInteger(score) /\ ScoreNumber(score) # 0

\* C23: 'Team Scoring' is emitted only if one of the two scores is a
\* non-zero parseable integer; when emitted it is the only category and has
\* two entries, the higher score first and the home team first on a tie;
\* otherwise the strategy yields nothing
C23_TeamScoringOnlyForNonZero ==
    HeaderDone =>
        /\ DOMAIN result.leaders \subseteq {"Team Scoring"}
        /\ (~IsNonZeroInteger(ScoreOfSide("home")) /\ ~IsNonZeroInteger(ScoreOfSide("away")))
                => DOMAIN result.leaders = {}
        /\ \A n \in DOMAIN result.leaders :
                /\ Len(result.leaders[n]) = 2
                /\ {result.leaders[n][1].team, result.leaders[n][2].team} = {"NYY", "BOS"}
                /\ result.leaders[n][1].team = "NYY"
                        <=> ScoreNumber(ScoreOfSide("home")) >= ScoreNumber(ScoreOfSide("away"))

\* C24: a non-empty list always gets a primary; when no game of the list
\* is in progress, completed or scheduled, the primary is a game of latest
\* start time and there is no next game
C24_FallbackLatest ==
    (Selected /\ team_games # <<>>) =>
        /\ primary_game \in Idx
        /\ (\A i \in Idx : ~IsInProgress(i) /\ ~IsCompleted(i) /\ ~IsScheduled(i)) =>
                /\ \A j \in Idx :
                        team_games[primary_game].game_date >= team_games[j].game_date
                /\ next_game = 0

\* three postponed games, the latest of them in the middle of the list
C24_Witness ==
    /\ Selected
    /\ Len(team_games) = 3
    /\ \A i \in Idx : team_games[i].status_type = "STATUS_POSTPONED"
    /\ team_games[1].game_date < team_games[2].game_date
    /\ team_games[3].game_date < team_games[2].game_date
    /\ primary_game = 2
    /\ next_game = 0

\* C28: whenever a next game is returned it is a game of the list with
\* status SCHEDULED, hence neither in progress nor completed, and it is not
\* the record returned as primary
C28_NextIsScheduledAndDistinct ==
    (Selected /\ next_game # 0) =>
        /\ next_game \in Idx
        /\ team_games[next_game].status_type = "STATUS_SCHEDULED"
        /\ ~IsInProgress(next_game)
        /\ ~IsCompleted(next_game)
        /\ next_game # primary_game

\* two scheduled games with the same start time: primary and next are equal
\* in content and still two records
C28_Witness ==
    /\ Selected
    /\ Len(team_games) = 2
    /\ team_games[1] = team_games[2]
    /\ IsScheduled(1)
    /\ primary_game = 1
    /\ next_game = 2

\* vocabulary of the single-game lookup: the scoreboard URL of the k-th day
\* of the scan and the summary URLs that were requested
LookupDay(k) ==
    [base |-> detail_base_url(sport).base_url, path |-> "scoreboard",
     arg |-> (now \div DayLen) + <<-2, -1, 0, 1, 2>>[k]]

SummariesRequested == {u \in requested : u.path = "summary"}

LookupOver == op = "detail" /\ pc = "done" /\ detail_base_url(sport).ok

\* the scoreboard queries sent so far are those of the days -2, -1, 0, +1,
\* +2, each sent only after the queries of all days before it
LookupInOrder ==
    op = "detail" =>
        /\ \A u \in requested \ SummariesRequested :
                \E k \in 1..5 : u = LookupDay(k)
        /\ \A k \in 1..5 : LookupDay(k) \in requested =>
                \A j \in 1..(k - 1) : LookupDay(j) \in requested

\* once an event was found on day k no scoreboard of a later day is queried
LookupStopsAtMatch ==
    (op = "detail" /\ game_info # 0) =>
        \E k \in 1..5 :
            /\ game_info = 400 + (now \div DayLen) + <<-2, -1, 0, 1, 2>>[k]
            /\ LookupDay(k) \in requested
            /\ \A j \in (k + 1)..5 : LookupDay(j) \notin requested

\* a summary is requested only for the event that was found
SummaryOnlyForFound ==
    op = "detail" =>
        \A u \in SummariesRequested :
            /\ game_info # 0
            /\ u = [base |-> detail_base_url(sport).base_url,
                     path |-> "summary", arg |-> game_info]

\* a lookup that found no event ends with 'No recent games found'
NoMatchIsNoRecentGames ==
    (LookupOver /\ game_info = 0) =>
        /\ result.kind = "error"
        /\ result.error = "No recent games found"
        /\ SummariesRequested = {}

\* C29: the single-game lookup queries the days -2, -1, 0, +1, +2 in that
\* order and stops at the first event with a matching competitor, querying
\* no later day; the summary is requested only after an event was found and
\* for that event's id; when no day has a match the result is the error
\* 'No recent games found' and no summary is requested
C29_LookupOrder ==
    /\ LookupInOrder
    /\ LookupStopsAtMatch
    /\ SummaryOnlyForFound
    /\ NoMatchIsNoRecentGames

(***************************************************************************)
(* DateParser: lines 177-201 of get_scores on the characters of the date   *)
(* string.  datetime.fromisoformat is modelled for strings of the form     *)
(* YYYY-MM-DD, then one separator character, HH:MM or HH:MM:SS, then an    *)
(* optional offset +HH:MM or -HH:MM; every other string is rejected.  An   *)
(* instant is a number of minutes counted from the start of the month.     *)
(***************************************************************************)
NoDate == [ok |-> FALSE, aware |-> FALSE, t |-> 0]

\* the number written by the two characters s[i], s[i + 1], or -1
TwoDigits(s, i) ==
    IF Len(s) > i /\ DigitVal(s[i]) >= 0 /\ DigitVal(s[i + 1]) >= 0
    THEN 10 * DigitVal(s[i]) + DigitVal(s[i + 1])
    ELSE -1

\* YYYY-MM-DD
IsoDateOk(s) ==
    /\ Len(s) >= 10
    /\ \A i \in {1, 2, 3, 4} : DigitVal(s[i]) >= 0
    /\ s[5] = "-" /\ s[8] = "-"
    /\ TwoDigits(s, 6) \in 1..12
    /\ TwoDigits(s, 9) \in 1..31

\* HH:MM or HH:MM:SS as minutes, or -1
IsoClock(c) ==
    IF /\ Len(c) \in {5, 8}
       /\ c[3] = ":"
       /\ TwoDigits(c, 1) \in 0..23
       /\ TwoDigits(c, 4) \in 0..59
       /\ Len(c) = 8 => (c[6] = ":" /\ TwoDigits(c, 7) \in 0..59)
    THEN 60 * TwoDigits(c, 1) + TwoDigits(c, 4)
    ELSE -1

\* str.find(c) + 1
FindChar(tstr, c) ==
    IF \E i \in 1..Len(tstr) : tstr[i] = c
    THEN CHOOSE i \in 1..Len(tstr) :
            tstr[i] = c /\ \A j \in 1..(i - 1) : tstr[j] # c
    ELSE 0

\* the position of the offset sign in a time string: the first "-", or the
\* first "+" when there is no "-", or 0
OffsetSignAt(tstr) ==
    IF FindChar(tstr, "-") # 0 THEN FindChar(tstr, "-") ELSE FindChar(tstr, "+")

\* the datetime of a day, a clock and an offset; an aware one is the UTC
\* instant, a naive one the wall-clock reading
IsoInstant(day, clock, aware, offset, sign) ==
    IF clock < 0 \/ offset < 0 THEN NoDate
    ELSE [ok |-> TRUE, aware |-> aware, t |-> 1440 * day + clock - sign * offset]

\* the time part of an ISO string, split at the offset sign
IsoTime(day, tstr, sign_at) ==
    IF sign_at = 0 THEN IsoInstant(day, IsoClock(tstr), FALSE, 0, 1)
    ELSE IsoInstant(day, IsoClock(SubSeq(tstr, 1, sign_at - 1)), TRUE,
                    IsoClock(SubSeq(tstr, sign_at + 1, Len(tstr))),
                    IF tstr[sign_at] = "-" THEN -1 ELSE 1)

\* datetime.fromisoformat; ok = FALSE is the ValueError
fromisoformat(s) ==
    IF ~IsoDateOk(s) THEN NoDate
    ELSE IF Len(s) = 10 THEN IsoInstant(TwoDigits(s, 9), 0, FALSE, 0, 1)
    ELSE IF Len(s) = 11 THEN NoDate
    ELSE IsoTime(TwoDigits(s, 9), SubSeq(s, 12, Len(s)),
                 OffsetSignAt(SubSeq(s, 12, Len(s))))

\* game_date_str.replace('Z', '+00:00')
ReplaceZ(s) ==
    Concat([i \in 1..Len(s) |->
                IF s[i] = "Z" THEN <<"+","0","0",":","0","0">> ELSE <<s[i]>>])

\* the string handed to fromisoformat (lines 181-187)
IsoInput(game_date_str) ==
    IF game_date_str[Len(game_date_str)] = "Z" THEN ReplaceZ(game_date_str)
    ELSE IF /\ ~StrContains(game_date_str, <<"+">>)
            /\ StrContains(game_date_str, <<"T">>)
    THEN game_date_str \o <<"+","0","0",":","0","0">>
    ELSE game_date_str

\* lines 177-201: the start time of the game, <<>> standing for a missing,
\* null or empty date; ok = FALSE means the competitor is skipped.  The
\* conversion of line 190 reads a naive datetime in the zone of the host.
parse_game_date(game_date_str) ==
    IF game_date_str = <<>> THEN NoDate
    ELSE fromisoformat(IsoInput(game_date_str))

(***************************************************************************)
(* SpecDate: the date parsing applied to date strings put together from a  *)
(* separator, a clock and a suffix, and to a missing and a malformed date. *)
(***************************************************************************)
DateSeparators == { <<"T">>, <<" ">> }

DateClocks ==
    { <<"1","9",":","0","0">>, <<"1","9",":","0","0",":","0","0">>,
      <<"0","0",":","1","5">>, <<"0","7",":","3","0">>,
      <<"2","3",":","5","9">>, <<"2","5",":","0","0">> }

DateSuffixes ==
    { <<>>, <<"Z">>, <<"+","0","0",":","0","0">>, <<"+","0","2",":","0","0">>,
      <<"-","0","5",":","0","0">> }

DayPrefix == <<"2","0","2","4","-","0","1","-","1","5">>

DateParts ==
    { [kind |-> "iso", sep |-> sep, clock |-> clock, suffix |-> suffix] :
        sep \in DateSeparators, clock \in DateClocks, suffix \in DateSuffixes }
    \cup { [kind |-> "missing", sep |-> <<>>, clock |-> <<>>, suffix |-> <<>>],
           [kind |-> "malformed", sep |-> <<>>, clock |-> <<>>, suffix |-> <<>>] }

DateString(parts) ==
    CASE parts.kind = "iso" -> DayPrefix \o parts.sep \o parts.clock \o parts.suffix
      [] parts.kind = "missing" -> <<>>
      [] parts.kind = "malformed" -> <<"T","B","D">>

InitDate ==
    /\ pc = "date"
    /\ op = "date"
    /\ sport = <<>>
    /\ team_name = <<>>
    /\ now = 0
    /\ day_idx = 1
    /\ team_games = <<>>
    /\ result = NoResult
    /\ primary_game = 0
    /\ next_game = 0
    /\ api_cache = EmptyCache
    /\ requested = {}
    /\ game_info \in DateParts
    /\ day_data = DateString(game_info)

DateStep ==
    /\ pc = "date"
    /\ result' = [kind |-> "date"] @@ parse_game_date(day_data)
    /\ pc' = "date_done"
    /\ UNCHANGED <<op, sport, team_name, now, day_idx, team_games,
                   primary_game, next_game, api_cache, game_info, day_data,
                   requested>>

NextDate == DateStep

SpecDate == InitDate /\ [][NextDate]_vars

\* vocabulary of C25: the minutes each clock and each suffix stand for
DateDone == pc = "date_done"

ClockMinutes(clock) ==
    CASE clock = <<"1","9",":","0","0">> -> 1140
      [] clock = <<"1","9",":","0","0",":","0","0">> -> 1140
      [] clock = <<"0","0",":","1","5">> -> 15
      [] clock = <<"0","7",":","3","0">> -> 450
      [] clock = <<"2","3",":","5","9">> -> 1439
      [] OTHER -> -1

SuffixMinutes(suffix) ==
    CASE suffix = <<"+","0","2",":","0","0">> -> 120
      [] suffix = <<"-","0","5",":","0","0">> -> -300
      [] OTHER -> 0

Parseable == game_info.kind = "iso" /\ ClockMinutes(game_info.clock) >= 0

\* C25: a start time that is present and parseable, whether it ends in "Z",
\* carries no offset or carries a positive or negative offset, is accepted
\* and read as the instant it denotes, a missing offset meaning UTC; a
\* competitor is skipped only for a missing or unparseable start time
C25_EveryFormAccepted ==
    DateDone =>
        /\ result.ok <=> Parseable
        /\ Parseable =>
                /\ result.aware
                /\ result.t = 1440 * 15 + ClockMinutes(game_info.clock)
                                - SuffixMinutes(game_info.suffix)

(***************************************************************************)
(* SpecRequest: _make_api_request called up to MaxCalls times on the       *)
(* module's response cache, each call for one of two URLs and with the     *)
(* upstream answering its attempts in every way.                           *)
(***************************************************************************)
RequestUrls ==
    { ScoreboardUrl("basketball/nba", 15), SummaryUrl("basketball/nba", 401) }

RequestPayloads == { [kind |-> "dict", events |-> <<>>], [kind |-> "list"] }

RequestAttempts ==
    { [exc |-> e] : e \in RequestExceptions }
        \cup { [exc |-> "none", data |-> d] : d \in RequestPayloads }

InitRequest ==
    /\ pc = "request"
    /\ op = "make_api_request"
    /\ sport = <<>>
    /\ team_name = <<>>
    /\ now = 0
    /\ day_idx = 1
    /\ team_games = <<>>
    /\ result = NoResult
    /\ primary_game = 0
    /\ next_game = 0
    /\ api_cache = EmptyCache
    /\ requested = {}
    /\ game_info = 0
    /\ day_data = NoData

\* one call of the helper; day_idx counts the calls, result keeps the call's
\* arguments, the cache it found and what it returned or raised
RequestStep ==
    /\ pc \in {"request", "request_done"}
    /\ day_idx <= MaxCalls
    /\ \E url \in RequestUrls : \E first, second \in RequestAttempts :
          LET r == make_api_request(api_cache, url, <<first, second>>)
          IN  /\ result' = [kind |-> "request", url |-> url,
                            attempts |-> <<first, second>>,
                            before |-> api_cache] @@ r
              /\ api_cache' = r.cache
              /\ requested' = Outbound(requested, url, r)
    /\ day_idx' = day_idx + 1
    /\ pc' = "request_done"
    /\ UNCHANGED <<op, sport, team_name, now, team_games, primary_game,
                   next_game, game_info, day_data>>

NextRequest == RequestStep

SpecRequest == InitRequest /\ [][NextRequest]_vars

RequestDone == pc = "request_done" /\ result.kind = "request"

AttemptFailed(a) == a.exc # "none"

\* the key the cache files a URL under
UrlKey(url) == <<"api", url>>

\* C26: a call for a URL that is not cached makes one or two attempts; it
\* returns the data of the first attempt that succeeds and makes no attempt
\* after it; when both attempts fail it raises the failure of the second
\* one and never returns a value.
C26_TwoAttempts ==
    (RequestDone /\ UrlKey(result.url) \notin DOMAIN result.before) =>
        LET first == result.attempts[1]
            second == result.attempts[2]
        IN  /\ result.calls \in {1, 2}
            /\ ~AttemptFailed(first) =>
                   /\ result.exc = "none"
                   /\ result.data = first.data
                   /\ result.calls = 1
            /\ (AttemptFailed(first) /\ ~AttemptFailed(second)) =>
                   /\ result.exc = "none"
                   /\ result.data = second.data
                   /\ result.calls = 2
            /\ (AttemptFailed(first) /\ AttemptFailed(second)) =>
                   /\ result.exc = second.exc
                   /\ result.calls = 2

C26_Witness ==
    /\ RequestDone
    /\ UrlKey(result.url) \notin DOMAIN result.before
    /\ result.attempts[1].exc = "Timeout"
    /\ result.attempts[2].exc = "HTTPError"
    /\ result.exc = "HTTPError"
    /\ result.calls = 2

\* C30: the cache holds only decoded responses of successful attempts, each
\* under the key of its URL; a call that raises leaves the cache as it
\* found it, a call that fetches adds its response and alters no other
\* entry, and a call for a cached URL returns the stored data and makes no
\* attempt.
C30_CacheOnlySuccesses ==
    /\ \A k \in DOMAIN api_cache :
          /\ \E url \in RequestUrls : k = UrlKey(url)
          /\ api_cache[k] \in RequestPayloads
    /\ RequestDone =>
          LET key == UrlKey(result.url)
              before == result.before
          IN  /\ key \in DOMAIN before =>
                    /\ result.calls = 0
                    /\ result.exc = "none"
                    /\ result.data = before[key]
                    /\ api_cache = before
              /\ (key \notin DOMAIN before /\ result.exc # "none") =>
                    api_cache = before
              /\ (key \notin DOMAIN before /\ result.exc = "none") =>
                    /\ DOMAIN api_cache = DOMAIN before \cup {key}
                    /\ api_cache[key] = result.attempts[result.calls].data
                    /\ \A k \in DOMAIN before : api_cache[k] = before[k]

C30_Witness ==
    /\ RequestDone
    /\ UrlKey(result.url) \in DOMAIN result.before
    /\ result.calls = 0
    /\ result.attempts[1].exc = "none"
    /\ result.data # result.attempts[1].data

(***************************************************************************)
(* SpecConcurrent: two get_scores requests served by two threads of the    *)
(* same process.  Each variable of the request holds one value per thread; *)
(* api_cache is the module-level cache both threads use.  A thread can be  *)
(* preempted between the cache test of line 98 and the store of line 115,  *)
(* while it waits for the upstream.  day_data is the outcome of a thread's *)
(* last call of the request helper, until the thread has scanned it.       *)
(***************************************************************************)
Threads == {1, 2}

\* the second request asks for another team of the same sport or for a
\* team of another sport
SecondRequests ==
    { [sport |-> <<"m","l","b">>, team_name |-> BostonRedSox],
      [sport |-> <<"N","B","A">>, team_name |-> Lakers] }

\* a game in progress, as the upstream reports it at a given score
LiveEvent(day, score) ==
    [GoodEvent(day, "STATUS_IN_PROGRESS") EXCEPT !.competitors[1].score = score]

\* what the upstream answers to the attempts of one fetch: today's game at
\* the score of the moment, or two timeouts; no event on the other days
ThreadAttempts(day, today) ==
    IF day = today
    THEN { <<[exc |-> "none", data |-> Dict(<<LiveEvent(day, sc)>>)],
             [exc |-> "none", data |-> Dict(<<LiveEvent(day, sc)>>)]>> :
                sc \in {"3", "4"} }
            \cup { <<[exc |-> "Timeout"], [exc |-> "Timeout"]>> }
    ELSE { <<[exc |-> "none", data |-> Dict(<<>>)],
             [exc |-> "none", data |-> Dict(<<>>)]>> }

InitConcurrent ==
    /\ pc = [t \in Threads |-> "check"]
    /\ op = "scores"
    /\ \E second \in SecondRequests :
          /\ sport = (1 :> <<"m","l","b">>) @@ (2 :> second.sport)
          /\ team_name = (1 :> Yankees) @@ (2 :> second.team_name)
    /\ now \in NowInputs
    /\ day_idx = [t \in Threads |-> 1]
    /\ team_games = [t \in Threads |-> <<>>]
    /\ result = [t \in Threads |-> NoResult]
    /\ primary_game = [t \in Threads |-> 0]
    /\ next_game = [t \in Threads |-> 0]
    /\ api_cache = EmptyCache
    /\ requested = {}
    /\ game_info = 0
    /\ day_data = [t \in Threads |-> NoData]

ThreadUrl(t) ==
    ScoreboardUrl(scores_base_url(sport[t]).base_url,
                  DateStr(now, ScoreOffsets[day_idx[t]]))

\* thread t starts a day of its loop and tests the cache: lines 159-164, 95-102.
\* On a hit it holds the stored data, on a miss it sends its request.
ThreadCheck(t) ==
    /\ pc[t] = "check"
    /\ day_idx[t] <= Len(ScoreOffsets)
    /\ IF get_cache_key("api", ThreadUrl(t)) \in DOMAIN api_cache
       THEN /\ day_data' = [day_data EXCEPT ![t] =
                    make_api_request(api_cache, ThreadUrl(t), <<>>)]
            /\ pc' = [pc EXCEPT ![t] = "scan"]
       ELSE /\ pc' = [pc EXCEPT ![t] = "fetch"]
            /\ UNCHANGED day_data
    /\ UNCHANGED <<op, sport, team_name, now, day_idx, team_games, result,
                   primary_game, next_game, api_cache, game_info, requested>>

\* the upstream answers thread t, which had missed the cache: the attempts
\* of lines 104-125, with the store of line 115 made whatever the cache
\* holds by now
ThreadFetch(t) ==
    /\ pc[t] = "fetch"
    /\ \E attempts \in ThreadAttempts(DateStr(now, ScoreOffsets[day_idx[t]]),
                                       DateStr(now, 0)) :
          LET r == make_api_request(EmptyCache, ThreadUrl(t), attempts)
          IN  /\ api_cache' = r.cache @@ api_cache
              /\ day_data' = [day_data EXCEPT ![t] = r]
    /\ requested' = requested \cup {ThreadUrl(t)}
    /\ pc' = [pc EXCEPT ![t] = "scan"]
    /\ UNCHANGED <<op, sport, team_name, now, day_idx, team_games, result,
                   primary_game, next_game, game_info>>

\* lines 166-235 and 264-265 in thread t, on the outcome of its call of the
\* request helper
ThreadScan(t) ==
    /\ pc[t] = "scan"
    /\ LET r == day_data[t]
           scanned == IF r.exc = "none"
                      THEN ScanDay(r.data, team_name[t], team_games[t])
                      ELSE [exc |-> r.exc, team_games |-> team_games[t]]
       IN  /\ team_games' = [team_games EXCEPT ![t] = scanned.team_games]
           /\ IF scanned.exc = "none" \/ DayCatches(scanned.exc)
              THEN /\ day_idx' = [day_idx EXCEPT ![t] = @ + 1]
                   /\ pc' = [pc EXCEPT ![t] = "check"]
                   /\ UNCHANGED result
              ELSE /\ pc' = [pc EXCEPT ![t] = "done"]
                   /\ result' = [result EXCEPT ![t] =
                                   IF ScoresOuterCatches(scanned.exc)
                                   THEN ErrorResult("Failed to fetch data",
                                                    scanned.exc)
                                   ELSE Raised(scanned.exc)]
                   /\ UNCHANGED day_idx
    /\ day_data' = [day_data EXCEPT ![t] = NoData]
    /\ UNCHANGED <<op, sport, team_name, now, primary_game, next_game,
                   api_cache, game_info, requested>>

\* get_scores after the loop in thread t: lines 237-265
ThreadFinish(t) ==
    /\ pc[t] = "check"
    /\ day_idx[t] > Len(ScoreOffsets)
    /\ LET r == scores_result(team_games[t], now, team_name[t])
       IN  /\ primary_game' = [primary_game EXCEPT ![t] = r.primary]
           /\ next_game' = [next_game EXCEPT ![t] = r.next]
           /\ result' = [result EXCEPT ![t] =
                            IF r.exc = "none" THEN r.value
                            ELSE IF ScoresOuterCatches(r.exc)
                            THEN ErrorResult("Failed to fetch data", r.exc)
                            ELSE Raised(r.exc)]
    /\ pc' = [pc EXCEPT ![t] = "done"]
    /\ UNCHANGED <<op, sport, team_name, now, day_idx, team_games, api_cache,
                   game_info, day_data, requested>>

NextConcurrent ==
    \E t \in Threads :
        \/ ThreadCheck(t)
        \/ ThreadFetch(t)
        \/ ThreadScan(t)
        \/ ThreadFinish(t)

SpecConcurrent == InitConcurrent /\ [][NextConcurrent]_vars

\* a step is taken by one request and leaves alone the matched games, the
\* selection and the response of the other
PerRequestStateSeparate ==
    \E running \in Threads :
        \A t \in Threads \ {running} :
            /\ team_games'[t] = team_games[t]
            /\ primary_game'[t] = primary_game[t]
            /\ next_game'[t] = next_game[t]
            /\ result'[t] = result[t]
            /\ day_data'[t] = day_data[t]
            /\ day_idx'[t] = day_idx[t]
            /\ pc'[t] = pc[t]

\* an entry of the cache stays as it was inserted
EntriesKept ==
    \A k \in DOMAIN api_cache :
        k \in DOMAIN api_cache' /\ api_cache'[k] = api_cache[k]

\* C27: two requests running concurrently for different teams or sports
\* never touch each other's matched games, selected games or response, and
\* no entry of the response cache they share is modified after it was
\* inserted
C27_RequestsIndependent == [][PerRequestStateSeparate /\ EntriesKept]_vars

====
